---- MODULE Spec2Model ----
(***************************************************************************)
(* A model of the Urho3D exporter add-on for Blender:                      *)
(*   - the hierarchical sort (Node, Tree) of io_mesh_urho/export_scene.py, *)
(*   - the files registry and the models list of UrhoScene,                *)
(*   - the prefab assembler UrhoExportPrefabs of io_mesh_urho/prefabs.py,  *)
(*   - the scene-from-prefabs export of urho_scene_prefab.py.              *)
(* Strings are TLA+ strings, Python lists are sequences, Python's None is  *)
(* the value None below.                                                   *)
(***************************************************************************)
EXTENDS Integers, Sequences, FiniteSets, TLC

VARIABLES
    tree,       \* the Tree object: its nodes dict, each Node's parent and children
    pushed,     \* history: the items handed to Tree.push so far, in order
    listed,     \* the value of the last Tree.to_list call, NotListed before it
    files,      \* UrhoScene.files: the dict from pathType+name to the file's path
    firstPath,  \* history: per (pathType, name), the path of its first accepted AddFile
    lastPath,   \* history: per (pathType, name), the path of its latest accepted AddFile
    fileCall,   \* the last AddFile or FindFile call: its arguments and return value
    modelsList, \* UrhoScene.modelsList: the list of UrhoSceneModel records
    sortCall,   \* the last UrhoScene.SortModels call: the list before it and how it ended
    buttonSort, \* the Blender scene's objects and the last ExportScenePrefabButton.SortModels on them
    objects,    \* bpy.data.objects: per object name, its urho_ properties
    settings,   \* the options UrhoExportPrefabs is called with
    disk,       \* the prefab and scene files on disk: from pathType+name to the document
    exported,   \* the last UrhoExportPrefabs call: its pass, how it ended, what it wrote
    scn,        \* the Blender scene's properties read by ExportScenePrefabButton.execute
    instances,  \* the module's global list "instances"
    sceneRun,   \* the last ExportScenePrefabButton.execute call: how it ended, what it wrote
    maskLayers, \* the vector of layer booleans GetBitMask is given
    maskCall,   \* the last GetBitMask call: which copy was called and what it returned
    materialsCall \* the last UrhoWriteMaterialsList call: its model name and the file it wrote

treeVars == <<tree, pushed, listed>>
fileVars == <<files, firstPath, lastPath, fileCall>>
modelVars == <<modelsList, sortCall, buttonSort>>

exportVars == <<objects, settings, disk, exported, scn, instances, sceneRun>>
pureVars == <<maskLayers, maskCall, materialsCall>>

vars == <<tree, pushed, listed, files, firstPath, lastPath, fileCall, modelsList, sortCall,
          buttonSort, objects, settings, disk, exported, scn, instances, sceneRun,
          maskLayers, maskCall, materialsCall>>

-----------------------------------------------------------------------------
(* Values and bounds *)

\* Python's None.
None == "<None>"

\* The empty string: falsy like None, but a string.
EmptyStr == ""

\* The value of listed while Tree.to_list has not been called on the tree.
NotListed == [kind |-> "not called", names |-> <<>>]

\* The pool the model draws object and model names from.
AllNames == <<"Cube", "Cube.001", "Cube.002", "Cube.003", "Cube.004">>

\* How many of the names of AllNames are in use.
NumNames == 3

Names == {AllNames[i] : i \in 1..NumNames}

\* How many Tree.push calls a behaviour makes.
MaxPush == 3

\* Python truthiness of a string-or-None: None and '' are false.
Truthy(x) == x # None /\ x # EmptyStr

Range(s) == {s[i] : i \in DOMAIN s}

\* The positions at which x occurs in the sequence s.
Positions(s, x) == {i \in DOMAIN s : s[i] = x}

-----------------------------------------------------------------------------
(* export_scene.py: Node and Tree *)

\* Tree.__init__: an empty nodes dict. The dict is modelled by the sequence of
\* its keys in insertion order (the order nodes.values() iterates in) and, per
\* key, the Node's parent (a name or None) and children (a list of names; the
\* Node objects are identified by their names, one object per dict key).
EmptyTree == [order |-> <<>>, parent |-> <<>>, children |-> <<>>]

HasNode(t, n) == n \in Range(t.order)

\* self.nodes[name] = Node(name), guarded by "name not in self.nodes".
EnsureNode(t, n) ==
    IF HasNode(t, n) THEN t
    ELSE [order    |-> Append(t.order, n),
          parent   |-> (n :> None) @@ t.parent,
          children |-> (n :> <<>>) @@ t.children]

\* The link made with the child put first among the parent's children.
LinkNodeFirst(t, name, parent) ==
    [t EXCEPT !.parent[name]     = parent,
              !.children[parent] = <<name>> \o @]

\* The last two statements of Tree.push: set the parent and append the child.
LinkNode(t, name, parent) ==
    [t EXCEPT !.parent[name]     = parent,
              !.children[parent] = Append(@, name)]

\* Tree.push that links the name only under a parent that has a node already
\* and creates no node for a parent that has none.
TreePushKnownParent(t, name, parent) ==
    LET t1 == EnsureNode(t, name)
    IN  IF Truthy(parent) /\ HasNode(t1, parent) /\ parent # name
        THEN LinkNode(t1, name, parent)
        ELSE t1

\* Tree.push(item), item = (name, parent).
TreePush(t, name, parent) ==
    LET t1 == EnsureNode(t, name)
    IN  IF Truthy(parent)
        THEN LET t2 == EnsureNode(t1, parent)
             IN  IF parent # name THEN LinkNode(t2, name, parent) ELSE t2
        ELSE t1

\* What a traversal yields in place of a name when the recursion does not end.
RecursionMark == "<RecursionError>"

RECURSIVE ConcatMap(_, _, _, _)
RECURSIVE NodeToListPost(_, _, _)
RECURSIVE NodeToList(_, _, _)

\* Node.to_list with the children's names placed before the node's own name.
NodeToListPost(t, n, fuel) ==
    IF fuel = 0 THEN <<RecursionMark>>
    ELSE ConcatMap(t, t.children[n], 1, fuel - 1) \o <<n>>

\* Node.to_list: the node's name, then each child's to_list in children order.
\* fuel is the depth left: a call chain longer than the number of nodes visits
\* a node that is already on the chain, and then never returns.
NodeToList(t, n, fuel) ==
    IF fuel = 0 THEN <<RecursionMark>>
    ELSE <<n>> \o ConcatMap(t, t.children[n], 1, fuel - 1)

\* names.extend(child.to_list()) for the children from position i on.
ConcatMap(t, kids, i, fuel) ==
    IF i > Len(kids) THEN <<>>
    ELSE NodeToList(t, kids[i], fuel) \o ConcatMap(t, kids, i + 1, fuel)

RECURSIVE RootsToList(_, _, _)
\* The loop of Tree.to_list from position i of nodes.values(): the nodes that
\* are in the set keep are flattened, the others skipped.
RootsToList(t, i, keep) ==
    IF i > Len(t.order) THEN <<>>
    ELSE (IF t.order[i] \in keep
          THEN NodeToList(t, t.order[i], Len(t.order) + 1)
          ELSE <<>>) \o RootsToList(t, i + 1, keep)

\* The value of a flattening: the list, or the unbounded recursion.
ListResult(names) ==
    IF RecursionMark \in Range(names)
    THEN [kind |-> "RecursionError", names |-> <<>>]
    ELSE [kind |-> "list", names |-> names]

\* Tree.to_list without the "if not node.parent" filter.
TreeToListNoFilter(t) ==
    ListResult(RootsToList(t, 1, Range(t.order)))

\* Tree.to_list: the nodes without a parent, in nodes.values() order, each
\* followed by its to_list.
TreeToList(t) ==
    ListResult(RootsToList(t, 1, {n \in Range(t.order) : t.parent[n] = None}))

-----------------------------------------------------------------------------
(* export_scene.py: UrhoScene.files, AddFile and FindFile *)

\* utils.PathType: the string each category of file prefixes its names with.
PathType_MODELS == "MODE-"
PathType_MATERIALS == "MATE-"

PathTypes == {PathType_MODELS, PathType_MATERIALS}

\* How many of the names of AllNames files are registered under.
NumFileNames == 1

\* The names AddFile and FindFile are called with: model and material names,
\* a name that reads like a key of the dict, the empty string and None.
FileNames ==
    {AllNames[i] : i \in 1..NumFileNames}
        \cup {PathType_MODELS \o AllNames[1], EmptyStr, None}

\* The paths files are registered with.
FilePaths == {"first.mdl", "second.mdl"}

\* The value of fileCall while neither AddFile nor FindFile has been called.
NoFileCall ==
    [op |-> "none", pathType |-> None, name |-> None, path |-> None,
     ret |-> None, wasRegistered |-> FALSE]

\* A lookup under the bare name instead of pathType+name.
FindFileByName(fs, pathType, name) ==
    IF name = None THEN None
    ELSE IF name \in DOMAIN fs THEN fs[name]
    ELSE None

\* self.files[pathType+name], None on KeyError; None at once for a None name.
FindFileIn(fs, pathType, name) ==
    IF name = None THEN None
    ELSE IF (pathType \o name) \in DOMAIN fs THEN fs[pathType \o name]
    ELSE None

\* The test AddFile rejects a registration by: "name in self.files".
AlreadyAdded(fs, pathType, name) == name \in DOMAIN fs

\* The value AddFile returns.
AddFileReturns(fs, pathType, name) ==
    IF ~Truthy(name) THEN FALSE
    ELSE IF AlreadyAdded(fs, pathType, name) THEN FALSE
    ELSE TRUE

\* The dict AddFile leaves: self.files[pathType+name] = fileUrhoPath when the
\* call is accepted (an existing entry under that key is replaced).
AddFileDict(fs, pathType, name, fileUrhoPath) ==
    IF AddFileReturns(fs, pathType, name)
    THEN ((pathType \o name) :> fileUrhoPath)
            @@ [k \in DOMAIN fs \ {pathType \o name} |-> fs[k]]
    ELSE fs

-----------------------------------------------------------------------------
(* export_scene.py: UrhoSceneModel, UrhoScene.Load and UrhoScene.SortModels;
   urho_scene_prefab.py: ExportScenePrefabButton.SortModels *)

\* How many models UrhoScene.Load appends to modelsList in a behaviour.
MaxModels == 3

\* How many objects the Blender scene holds.
MaxObjects == 3

ModelTypes == {"StaticModel", "AnimatedModel"}

\* UrhoSceneModel.Load: the record of one model. type is "AnimatedModel" when
\* the model has bones or morphs; parentObjectName is the name of the Blender
\* object's parent when that parent is a mesh, and None otherwise.
UrhoSceneModel(name, parentObjectName, animated, materials, boundingBox) ==
    [name             |-> name,
     parentObjectName |-> parentObjectName,
     type             |-> IF animated THEN "AnimatedModel" ELSE "StaticModel",
     materialsList    |-> materials,
     boundingBox      |-> boundingBox]

\* The bounding box of a cube of side 2 centred on the origin, in hundredths.
CubeBox == [min |-> <<-100, -100, -100>>, max |-> <<100, 100, 100>>]

\* The items of the models with name and parent exchanged.
ModelItemsSwapped(ml) == [i \in DOMAIN ml |-> <<ml[i].parentObjectName, ml[i].name>>]

\* The (name, parent) items UrhoScene.SortModels pushes, in list order.
ModelItems(ml) == [i \in DOMAIN ml |-> <<ml[i].name, ml[i].parentObjectName>>]

\* The (name, parent) items ExportScenePrefabButton.SortModels pushes.
ObjectItems(objs) == [i \in DOMAIN objs |-> <<objs[i].name, objs[i].parent>>]

RECURSIVE PushAll(_, _, _)
\* for model in ...: names_tree.push(item), from item i on.
PushAll(t, items, i) ==
    IF i > Len(items) THEN t
    ELSE PushAll(TreePush(t, items[i][1], items[i][2]), items, i + 1)

\* The list without its element at position k.
RemoveAt(l, k) == [i \in 1..(Len(l) - 1) |-> IF i < k THEN l[i] ELSE l[i + 1]]

\* The position of the first record of l named name, 0 when there is none.
FirstNamed(l, name) ==
    IF \E k \in DOMAIN l : l[k].name = name
    THEN CHOOSE k \in DOMAIN l :
            l[k].name = name /\ \A j \in 1..(k - 1) : l[j].name # name
    ELSE 0

RECURSIVE Reproject(_, _, _, _)
\* "Rearrange the model list in the new order": for each name from position i
\* on, the first remaining model of that name is appended to the ordered list
\* and removed from the remaining ones.
Reproject(names, i, remaining, ordered) ==
    IF i > Len(names) THEN ordered
    ELSE LET k == FirstNamed(remaining, names[i])
         IN  IF k = 0 THEN Reproject(names, i + 1, remaining, ordered)
             ELSE Reproject(names, i + 1, RemoveAt(remaining, k),
                            Append(ordered, remaining[k]))

\* The tree-sorted order, handed back last model first.
SortByTreeReversed(records, items) ==
    LET r == TreeToList(PushAll(EmptyTree, items, 1))
        l == Reproject(r.names, 1, records, <<>>)
    IN  IF r.kind = "list"
        THEN [status |-> "done", list |-> [i \in DOMAIN l |-> l[Len(l) + 1 - i]]]
        ELSE [status |-> r.kind, list |-> records]

\* The tree-sorted order of the records whose items are given: the status the
\* call ends with and the list it assigns. A RecursionError leaves Tree.to_list
\* before the rearranging loop starts, so the list is then the one it was.
SortByTree(records, items) ==
    LET r == TreeToList(PushAll(EmptyTree, items, 1))
    IN  IF r.kind = "list"
        THEN [status |-> "done", list |-> Reproject(r.names, 1, records, <<>>)]
        ELSE [status |-> r.kind, list |-> records]

\* UrhoScene.SortModels, as the value of self.modelsList after it.
SortModelsOf(ml) == SortByTree(ml, ModelItems(ml))

\* The objects a SelectSeq keeps: those whose hide is unset.
Visible(objs) == SelectSeq(objs, LAMBDA o : ~o.hide)

\* ExportScenePrefabButton.SortModels(context), as the value it returns.
ButtonSortModelsOf(objs) == SortByTree(Visible(objs), ObjectItems(Visible(objs)))

\* The value of sortCall while UrhoScene.SortModels has not been called.
NoSortCall == [status |-> "none", before |-> <<>>]

\* The value of buttonSort: the objects of the scene, and the status and value
\* of the last ExportScenePrefabButton.SortModels call on them.
NoButtonSort == [objects |-> <<>>, status |-> "none", sorted |-> <<>>]

-----------------------------------------------------------------------------
(* prefabs.py: numbers, strings and the XML elements *)

(* Floats are fixed-point numbers in hundredths (the panels edit them with two
   decimals): 0.5 is 50, 1.0 is 100. A vector is a triple of them. The contact
   threshold alone, whose default is 1e+18, is counted in units of 1e+16. An
   attribute value is kept as the string's content with the format that made
   it: on these grids '{:g}' and '{:d}' give different strings for different
   numbers. *)

\* nodeID = 0x1000000
BaseID == 16777216

\* The id of an element that was given none.
NoId == -1

\* A literal string used as an attribute value.
Lit(s) == [kind |-> "s", s |-> s, n |-> <<>>]

\* utils.FloatToString(value): '{:g}' of a float in hundredths.
FloatToString(v) == [kind |-> "g", s |-> "", n |-> <<v>>]

\* utils.FloatToString(value) of a float in units of 1e+16.
FloatToStringE16(v) == [kind |-> "g e+16", s |-> "", n |-> <<v>>]

\* utils.Vector3ToString(vector): three '{:g}' separated by spaces.
Vector3ToString(v) == [kind |-> "g g g", s |-> "", n |-> <<v[1], v[2], v[3]>>]

\* '{:d}'.format(i)
IntToString(i) == [kind |-> "d", s |-> "", n |-> <<i>>]

\* MAX_BITMASK_BITS = 8
MAX_BITMASK_BITS == 8

RECURSIVE Pow2(_)
Pow2(i) == IF i = 0 THEN 1 ELSE 2 * Pow2(i - 1)

\* MAX_BITMASK_VALUE = (1 << MAX_BITMASK_BITS) - 1
MAX_BITMASK_VALUE == Pow2(MAX_BITMASK_BITS) - 1

RECURSIVE BitOr(_, _)
\* a | b of two non-negative integers.
BitOr(a, b) ==
    IF a = 0 THEN b
    ELSE IF b = 0 THEN a
    ELSE (IF a % 2 = 1 \/ b % 2 = 1 THEN 1 ELSE 0) + 2 * BitOr(a \div 2, b \div 2)

RECURSIVE MaskOr(_, _, _)
\* "for i, bit in enumerate(layers): mask = mask | (1 << i if bit else 0)",
\* from the element at (0-based) position i - 1 on.
MaskOr(layers, i, mask) ==
    IF i > Len(layers) THEN mask
    ELSE MaskOr(layers, i + 1, BitOr(mask, IF layers[i] THEN Pow2(i - 1) ELSE 0))

\* The mask as it is before "if mask == MAX_BITMASK_VALUE: mask = -1".
GetBitMaskPlain(layers) == MaskOr(layers, 1, 0)

\* GetBitMask(layers) of prefabs.py
GetBitMask(layers) ==
    LET mask == MaskOr(layers, 1, 0)
    IN  IF mask = MAX_BITMASK_VALUE THEN -1 ELSE mask

\* MAX_BITMASK_BITS and MAX_BITMASK_VALUE of urho_scene_prefab.py
Button_MAX_BITMASK_BITS == 8
Button_MAX_BITMASK_VALUE == Pow2(Button_MAX_BITMASK_BITS) - 1

\* GetBitMask(layers) of urho_scene_prefab.py
ButtonGetBitMask(layers) ==
    LET mask == MaskOr(layers, 1, 0)
    IN  IF mask = Button_MAX_BITMASK_VALUE THEN -1 ELSE mask

\* [True] * 8
AllLayers == [i \in 1..MAX_BITMASK_BITS |-> TRUE]

\* [True, False, False, False, False, False, False, False]
FirstLayer == [i \in 1..MAX_BITMASK_BITS |-> i = 1]

\* An <attribute name=... value=...> element.
Attr(name, value) == [name |-> name, value |-> value]

\* The attribute when the test before it holds, nothing otherwise.
When(test, name, value) == IF test THEN <<Attr(name, value)>> ELSE <<>>

\* A <component type=... id=...> element with its attributes.
Component(type, id, attrs) == [type |-> type, id |-> id, attrs |-> attrs]

\* A <node> or <scene> element: parent is the position of its parent element
\* in the document's element list, 0 for the document's top element.
Element(tag, id, parent, attrs, comps) ==
    [tag |-> tag, id |-> id, parent |-> parent, attrs |-> attrs, comps |-> comps]

-----------------------------------------------------------------------------
(* prefabs.py: the object properties of UrhoComponentsPanel *)

\* The default of every property, as the Property definitions give it.
DefaultObject ==
    [urho_is_occluder |-> FALSE,
     urho_can_be_occluded |-> TRUE,
     urho_cast_shadows |-> FALSE,
     urho_draw_distance |-> 0,
     urho_shadow_distance |-> 0,
     urho_lod_bias |-> 100,
     urho_max_lights |-> 0,
     urho_view_mask |-> AllLayers,
     urho_light_mask |-> AllLayers,
     urho_shadow_mask |-> AllLayers,
     urho_zone_mask |-> AllLayers,
     urho_occlusion_lod_level |-> -1,
     urho_create_subnode |-> FALSE,
     urho_subnode_rotation |-> <<0, 0, 0>>,
     urho_create_navigable |-> FALSE,
     urho_activate_physics |-> FALSE,
     urho_shape_type |-> "TriangleMesh",
     urho_size_factor |-> <<100, 100, 100>>,
     urho_offset_rotation |-> <<0, 0, 0>>,
     urho_lod_level |-> 0,
     urho_collision_margin |-> 4,
     urho_customgeometry_nodeid |-> 0,
     urho_overwrite_model |-> FALSE,
     urho_model |-> "",
     urho_overwrite_size |-> FALSE,
     urho_size |-> <<0, 0, 0>>,
     urho_overwrite_offset_position |-> FALSE,
     urho_offset_position |-> <<0, 0, 0>>,
     urho_mass |-> 0,
     urho_friction |-> 50,
     urho_anisotropic_friction |-> <<100, 100, 100>>,
     urho_rolling_friction |-> 0,
     urho_restitution |-> 0,
     urho_linear_velocity |-> <<0, 0, 0>>,
     urho_angular_velocity |-> <<0, 0, 0>>,
     urho_linear_factor |-> <<100, 100, 100>>,
     urho_angular_factor |-> <<100, 100, 100>>,
     urho_linear_damping |-> 0,
     urho_angular_damping |-> 0,
     urho_linear_rest_threshold |-> 80,
     urho_angular_rest_threshold |-> 100,
     urho_collision_layer |-> FirstLayer,
     urho_collision_mask |-> AllLayers,
     urho_contact_threshold |-> 100,
     urho_ccd_radius |-> 0,
     urho_ccd_motion_threshold |-> 0,
     urho_collision_event_mode |-> "WHENACTIVE",
     urho_use_gravity |-> TRUE,
     urho_is_kinematic |-> FALSE,
     urho_is_trigger |-> FALSE,
     urho_gravity_override |-> <<0, 0, 0>>,
     \* Blender's own: obj.parent.type ("NONE" without a parent) and the matrix
     \* modelMatrix is taken from
     parent_type |-> "NONE",
     matrix_local |-> "local",
     matrix_world |-> "world"]

\* The contact threshold below which the attribute is written: 1e+17.
ContactThresholdLimit == 10

-----------------------------------------------------------------------------
(* prefabs.py: the attributes UrhoExportPrefabs writes for one object *)

\* The attributes of the RigidBody component, in the order written.
RigidBodyAttrs(obj) ==
    When(obj.urho_mass # 0, "Mass", FloatToString(obj.urho_mass))
    \o When(obj.urho_friction # 50, "Friction", FloatToString(obj.urho_friction))
    \o When(Vector3ToString(obj.urho_anisotropic_friction) # Vector3ToString(<<100, 100, 100>>),
            "Anisotropic Friction", Vector3ToString(obj.urho_anisotropic_friction))
    \o When(obj.urho_rolling_friction # 0,
            "Rolling Friction", FloatToString(obj.urho_rolling_friction))
    \o When(obj.urho_restitution # 0, "Restitution", FloatToString(obj.urho_restitution))
    \o When(Vector3ToString(obj.urho_linear_velocity) # Vector3ToString(<<0, 0, 0>>),
            "Linear Velocity", Vector3ToString(obj.urho_linear_velocity))
    \o When(Vector3ToString(obj.urho_angular_velocity) # Vector3ToString(<<0, 0, 0>>),
            "Angular Velocity", Vector3ToString(obj.urho_angular_velocity))
    \o When(Vector3ToString(obj.urho_linear_factor) # Vector3ToString(<<100, 100, 100>>),
            "Linear Factor", Vector3ToString(obj.urho_linear_factor))
    \o When(Vector3ToString(obj.urho_angular_factor) # Vector3ToString(<<100, 100, 100>>),
            "Angular Factor", Vector3ToString(obj.urho_angular_factor))
    \o When(obj.urho_linear_damping # 0,
            "Linear Damping", FloatToString(obj.urho_linear_damping))
    \o When(obj.urho_angular_damping # 0,
            "Angular Damping", FloatToString(obj.urho_angular_damping))
    \o When(FloatToString(obj.urho_linear_rest_threshold) # FloatToString(80),
            "Linear Rest Threshold", FloatToString(obj.urho_linear_rest_threshold))
    \o When(obj.urho_angular_rest_threshold # 100,
            "Angular Rest Threshold", FloatToString(obj.urho_angular_rest_threshold))
    \o When(obj.urho_collision_layer # FirstLayer,
            "Collision Layer", IntToString(GetBitMask(obj.urho_collision_layer)))
    \o When(obj.urho_collision_mask # AllLayers,
            "Collision Mask", IntToString(GetBitMask(obj.urho_collision_mask)))
    \o When(obj.urho_contact_threshold < ContactThresholdLimit,
            "Contact Threshold", FloatToStringE16(obj.urho_contact_threshold))
    \o When(obj.urho_ccd_radius # 0, "CCD Radius", FloatToString(obj.urho_ccd_radius))
    \o When(obj.urho_ccd_motion_threshold # 0,
            "CCD Motion Threshold", FloatToString(obj.urho_ccd_motion_threshold))
    \o When(obj.urho_collision_event_mode # "WHENACTIVE",
            "CCD Motion Threshold", Lit(obj.urho_collision_event_mode))
    \o When(~obj.urho_use_gravity, "Use Gravity", Lit("false"))
    \o When(obj.urho_is_kinematic, "Is Kinematic", Lit("true"))
    \o When(obj.urho_is_trigger, "Is Trigger", Lit("true"))
    \o When(Vector3ToString(obj.urho_gravity_override) # Vector3ToString(<<0, 0, 0>>),
            "Gravity Override", Vector3ToString(obj.urho_gravity_override))

\* The attributes of the CollisionShape component, in the order written.
CollisionShapeAttrs(obj, modelFile, shapeSize, shapeOffset) ==
    <<Attr("Shape Type", Lit(obj.urho_shape_type))>>
    \o (IF obj.urho_shape_type = "TriangleMesh" \/ obj.urho_shape_type = "ConvexHull"
        THEN <<Attr("Model",
                    Lit("Model;" \o (IF obj.urho_overwrite_model
                                     THEN obj.urho_model ELSE modelFile)))>>
        ELSE When(Vector3ToString(shapeSize) # Vector3ToString(<<100, 100, 100>>),
                  "Size", Vector3ToString(shapeSize))
             \o When(Vector3ToString(shapeOffset) # Vector3ToString(<<0, 0, 0>>),
                     "Offset Position", Vector3ToString(shapeOffset)))
    \o When(Vector3ToString(obj.urho_offset_rotation) # Vector3ToString(<<0, 0, 0>>),
            "Offset Rotation", Vector3ToString(obj.urho_offset_rotation))
    \o When(obj.urho_lod_level # 0, "LOD Level", IntToString(obj.urho_lod_level))
    \o When(FloatToString(obj.urho_collision_margin) # FloatToString(4),
            "Collision Margin", FloatToString(obj.urho_collision_margin))
    \o When(obj.urho_customgeometry_nodeid # 0,
            "CustomGeometry NodeID", IntToString(obj.urho_customgeometry_nodeid))

\* The attributes of the StaticModel / AnimatedModel component.
ModelAttrs(obj, modelFile, materials) ==
    <<Attr("Model", Lit("Model;" \o modelFile)),
      Attr("Material", Lit("Material" \o materials))>>
    \o When(obj.urho_is_occluder, "Is Occluder", Lit("true"))
    \o When(~obj.urho_can_be_occluded, "Can Be Occluded", Lit("false"))
    \o When(obj.urho_cast_shadows, "Cast Shadows", Lit("true"))
    \o When(obj.urho_draw_distance # 0,
            "Draw Distance", FloatToString(obj.urho_draw_distance))
    \o When(obj.urho_shadow_distance # 0,
            "Shadow Distance", FloatToString(obj.urho_shadow_distance))
    \o When(obj.urho_lod_bias # 100, "LOD Bias", FloatToString(obj.urho_lod_bias))
    \o When(obj.urho_max_lights # 0, "Max Lights", IntToString(obj.urho_max_lights))
    \o When(obj.urho_view_mask # AllLayers,
            "View Mask", IntToString(GetBitMask(obj.urho_view_mask)))
    \o When(obj.urho_light_mask # AllLayers,
            "Light Mask", IntToString(GetBitMask(obj.urho_light_mask)))
    \o When(obj.urho_shadow_mask # AllLayers,
            "Shadow Mask", IntToString(GetBitMask(obj.urho_shadow_mask)))
    \o When(obj.urho_zone_mask # AllLayers,
            "Zone Mask", IntToString(GetBitMask(obj.urho_zone_mask)))
    \o When(obj.urho_occlusion_lod_level # -1,
            "Occlusion LOD Level", IntToString(obj.urho_occlusion_lod_level))

-----------------------------------------------------------------------------
(* prefabs.py: UrhoExportPrefabs *)

\* utils.PathType: the categories prefab and scene files are written under.
PathType_OBJECTS == "OBJE-"
PathType_SCENES == "SCEN-"

\* SOptions.__init__, with the tOptions.globalOrigin and fOptions.fileOverwrite
\* the call is given, the name of the Blender scene and the active object.
DefaultSettings ==
    [doIndividualPrefab |-> FALSE,
     doCollectivePrefab |-> FALSE,
     doScenePrefab      |-> FALSE,
     doPhysics          |-> FALSE,
     mergeObjects       |-> FALSE,
     batchComponents    |-> FALSE,
     navigation         |-> FALSE,
     createSkybox       |-> FALSE,
     skyboxPath         |-> "",
     exportMode         |-> "Everything",
     globalOrigin       |-> FALSE,
     fileOverwrite      |-> TRUE,
     blenderSceneName   |-> "Scene",
     active             |-> AllNames[1]]

\* utils.CheckFilepath: a file that exists is replaced only when
\* fOptions.fileOverwrite is set.
CheckFilepath(dsk, key, fileOverwrite) == key \notin DOMAIN dsk \/ fileOverwrite

\* utils.WriteXmlFile: the disk with the document stored under the key.
WriteXmlFile(dsk, key, doc) == (key :> doc) @@ [k \in DOMAIN dsk \ {key} |-> dsk[k]]

\* The part of an element list from element top on, as a document of its own:
\* every element created after top is inside it.
Subtree(elems, top) ==
    [i \in 1..(Len(elems) - top + 1) |->
        [elems[top + i - 1] EXCEPT !.parent = IF i = 1 THEN 0 ELSE @ - (top - 1)]]

\* "if sOptions.doScenePrefab:" the <scene> element and its components.
SceneElement(s) ==
    Element("scene", 1, 0, <<>>,
        <<Component("Octree", 1, <<>>), Component("DebugRenderer", 2, <<>>)>>
        \o (IF s.createSkybox
            THEN <<Component("Skybox", 4,
                        <<Attr("Model", Lit("Model;Models/Box.mdl")),
                          Attr("Material", Lit("Material;" \o s.skyboxPath))>>)>>
            ELSE <<>>)
        \o (IF s.navigation THEN <<Component("NavigationMesh", 5, <<>>)>> ELSE <<>>)
        \o (IF s.doPhysics /\ s.exportMode # "Props"
            THEN <<Component("PhysicsWorld", 6, <<>>)>> ELSE <<>>))

\* A DirectionalLight node whose Light component takes the id after 7.
LightNodeNextId(nodeID) ==
    Element("node", nodeID, 1,
        <<Attr("Name", Lit("DirectionalLight")),
          Attr("Rotation", Lit("0.9 0.4 0.25 0"))>>,
        <<Component("Light", 8, <<Attr("Light Type", Lit("Directional"))>>)>>)

\* The DirectionalLight node, a child of the <scene> element.
LightNode(nodeID) ==
    Element("node", nodeID, 1,
        <<Attr("Name", Lit("DirectionalLight")),
          Attr("Rotation", Lit("0.9 0.4 0.25 0"))>>,
        <<Component("Light", 7, <<Attr("Light Type", Lit("Directional"))>>)>>)

\* The root node: named after the Blender scene, with a Navigable component
\* that is given no id when sOptions.navigation is set.
RootNode(s, nodeID, parent) ==
    Element("node", nodeID, parent,
        <<Attr("Name", Lit(s.blenderSceneName))>>,
        IF s.navigation THEN <<Component("Navigable", NoId, <<>>)>> ELSE <<>>)

\* The state of the call when its loop starts: the elements created so far,
\* the position of the root node among them and the two counters. bbox holds
\* the locals bbox, x, y, z of the physics block, unbound until assigned.
ExportStart(s, dsk) ==
    [elems    |-> IF s.doScenePrefab
                  THEN <<SceneElement(s), LightNode(BaseID), RootNode(s, BaseID + 1, 1)>>
                  ELSE <<RootNode(s, BaseID, 0)>>,
     root     |-> IF s.doScenePrefab THEN 3 ELSE 1,
     nodeID   |-> IF s.doScenePrefab THEN BaseID + 1 ELSE BaseID,
     compoID  |-> BaseID,
     elements |-> <<>>,
     bbox     |-> [bound |-> FALSE, max |-> <<0, 0, 0>>, x |-> 0, y |-> 0, z |-> 0],
     written  |-> <<>>,
     disk     |-> dsk,
     status   |-> "running"]

RECURSIVE GatherMaterials(_, _, _)
\* "Gather materials": materials += ';' + file for each material from i on, an
\* unregistered material giving the empty string.
GatherMaterials(fs, materialsList, i) ==
    IF i > Len(materialsList) THEN ""
    ELSE LET file == FindFileIn(fs, PathType_MATERIALS, materialsList[i])
         IN  ";" \o (IF file = None THEN "" ELSE file)
                 \o GatherMaterials(fs, materialsList, i + 1)

\* The product of two numbers in hundredths.
Times(a, b) == (a * b) \div 100

\* The transform attributes of pass > 0 with a local origin. The values come
\* from Blender's matrices: each is kept as the matrix it is computed from.
TransformAttrs(obj) ==
    LET modelMatrix == IF obj.parent_type \notin {"NONE", "ARMATURE"}
                       THEN obj.matrix_local ELSE obj.matrix_world
    IN  <<Attr("Position", Lit("translation of " \o modelMatrix)),
          Attr("Rotation", Lit("euler of " \o modelMatrix)),
          Attr("Scale", Lit("scale of " \o modelMatrix))>>

\* The test without the model's own type.
NestUnderAnyParent(m, elements) ==
    /\ Truthy(m.parentObjectName)
    /\ m.parentObjectName \in DOMAIN elements

\* "If child node, parent to parent object instead of root": the test that
\* places the node of model m under the node of its parent.
NestUnderParent(m, elements) ==
    /\ m.type = "StaticModel"
    /\ Truthy(m.parentObjectName)
    /\ m.parentObjectName \in DOMAIN elements

\* "Use model's bounding box to compute CollisionShape's size": the extents
\* x, y, z of the bounding box times the size factor, the height 1 when a Box
\* shape is applied to a plane.
ComputedSize(obj, box) ==
    <<Times(box.x, obj.urho_size_factor[1]),
      IF obj.urho_shape_type = "Box" /\ box.y = 0 THEN 100
      ELSE Times(box.y, obj.urho_size_factor[2]),
      Times(box.z, obj.urho_size_factor[3])>>

\* The offset without the adjustment for a plane.
ComputedOffsetCentre(obj, box) ==
    <<box.max[1] - box.x \div 2, box.max[2] - box.y \div 2, box.max[3] - box.z \div 2>>

\* "CollisionShape Offset position": bbox.max minus half the extent per axis,
\* the height -0.5 when a Box shape is applied to a plane.
ComputedOffset(obj, box) ==
    <<box.max[1] - box.x \div 2,
      IF obj.urho_shape_type = "Box" /\ box.y = 0 THEN -50
      ELSE box.max[2] - box.y \div 2,
      box.max[3] - box.z \div 2>>

\* One round of "for uSceneModel in uScene.modelsList" for the model m.
ExportModel(st, s, objs, fs, currentPass, m) ==
    LET obj == IF s.mergeObjects \/ s.batchComponents THEN objs[s.active]
               ELSE objs[m.name]
        modelFile == FindFileIn(fs, PathType_MODELS, m.name)
        materials == GatherMaterials(fs, m.materialsList, 1)
        \* the node and its id
        nested == NestUnderParent(m, st.elements)
        parent == IF nested THEN st.elements[m.parentObjectName] ELSE st.root
        ownID == IF currentPass = 0 THEN st.nodeID ELSE st.nodeID + 1
        nodeID == IF currentPass = 0 THEN BaseID ELSE st.nodeID + 1
        nodeAttrs == <<Attr("Name", Lit(m.name))>>
                     \o (IF ~s.globalOrigin /\ currentPass > 0
                         THEN TransformAttrs(obj) ELSE <<>>)
        \* physics
        physics == s.doPhysics /\ obj.urho_activate_physics /\ s.exportMode # "Props"
        shapeType == obj.urho_shape_type
        box == IF obj.urho_overwrite_size THEN st.bbox
               ELSE [bound |-> TRUE,
                     max   |-> m.boundingBox.max,
                     x     |-> m.boundingBox.max[1] - m.boundingBox.min[1],
                     y     |-> m.boundingBox.max[2] - m.boundingBox.min[2],
                     z     |-> m.boundingBox.max[3] - m.boundingBox.min[3]]
        shapeSize == IF obj.urho_overwrite_size THEN obj.urho_size
                     ELSE ComputedSize(obj, box)
        unbound == physics /\ ~obj.urho_overwrite_offset_position /\ ~box.bound
        shapeOffset == IF obj.urho_overwrite_offset_position
                       THEN obj.urho_offset_position
                       ELSE ComputedOffset(obj, box)
        bodyID == IF currentPass = 0 THEN BaseID ELSE st.compoID
        physComps == IF physics
                     THEN <<Component("RigidBody", bodyID, RigidBodyAttrs(obj)),
                            Component("CollisionShape", bodyID + 1,
                                CollisionShapeAttrs(obj, modelFile, shapeSize,
                                                    shapeOffset))>>
                     ELSE <<>>
        compoID1 == IF physics THEN bodyID + 2 ELSE st.compoID
        \* sub-node, Navigable and the model component
        subNode == obj.urho_create_subnode /\ currentPass = 0
        navigable == /\ obj.urho_create_navigable
                     /\ (m.type = "StaticModel" \/ m.type = "TerrainPatch")
        navComps == IF navigable THEN <<Component("Navigable", compoID1, <<>>)>>
                    ELSE <<>>
        compoID2 == IF navigable THEN compoID1 + 1 ELSE compoID1
        typeComps == navComps \o <<Component(m.type, compoID2,
                                             ModelAttrs(obj, modelFile, materials))>>
        \* pass 0: the individual prefab
        individualNode == Element("node", ownID, 0, nodeAttrs,
                                  physComps \o (IF subNode THEN <<>> ELSE typeComps))
        subNodeElem == Element("node", nodeID, 1,
                           <<Attr("Name", Lit("SubNode"))>>
                           \o When(Vector3ToString(obj.urho_subnode_rotation)
                                       # Vector3ToString(<<0, 0, 0>>),
                                   "Rotation", Vector3ToString(obj.urho_subnode_rotation)),
                           typeComps)
        xml == <<individualNode>> \o (IF subNode THEN <<subNodeElem>> ELSE <<>>)
        key == PathType_OBJECTS \o m.name
        write == currentPass = 0 /\ CheckFilepath(st.disk, key, s.fileOverwrite)
        \* pass > 0: the node in the shared tree
        elems == IF currentPass = 0 THEN st.elems
                 ELSE Append(st.elems,
                             Element("node", nodeID, parent, nodeAttrs,
                                     physComps \o typeComps))
    IN  IF ~Truthy(modelFile) THEN [st EXCEPT !.status = "returned"]
        ELSE IF unbound THEN [st EXCEPT !.status = "UnboundLocalError"]
        ELSE [st EXCEPT
                !.elems    = elems,
                !.elements = IF currentPass = 0 THEN @
                             ELSE (m.name :> Len(elems))
                                      @@ [k \in DOMAIN @ \ {m.name} |-> @[k]],
                !.nodeID   = nodeID,
                !.compoID  = compoID2 + 1,
                !.bbox     = IF physics THEN box ELSE @,
                !.written  = IF write
                             THEN Append(@, [kind |-> "individual", key |-> key,
                                             name |-> m.name, doc |-> xml])
                             ELSE @,
                !.disk     = IF write THEN WriteXmlFile(@, key, xml) ELSE @]

RECURSIVE ExportLoop(_, _, _, _, _, _, _)
\* "for uSceneModel in uScene.modelsList", from model i on: the loop is left
\* at the first model whose round does not end normally.
ExportLoop(st, s, objs, fs, currentPass, ml, i) ==
    IF i > Len(ml) \/ st.status # "running" THEN st
    ELSE ExportLoop(ExportModel(st, s, objs, fs, currentPass, ml[i]),
                    s, objs, fs, currentPass, ml, i + 1)

\* "Write collective and scene prefab files"
ExportWrite(st, s) ==
    LET cKey == PathType_OBJECTS \o s.blenderSceneName
        cDoc == Subtree(st.elems, st.root)
        cWrite == /\ s.doCollectivePrefab /\ ~s.mergeObjects
                  /\ CheckFilepath(st.disk, cKey, s.fileOverwrite)
        disk1 == IF cWrite THEN WriteXmlFile(st.disk, cKey, cDoc) ELSE st.disk
        written1 == IF cWrite
                    THEN Append(st.written,
                                [kind |-> "collective", key |-> cKey,
                                 name |-> s.blenderSceneName, doc |-> cDoc])
                    ELSE st.written
        sKey == PathType_SCENES \o s.blenderSceneName
        sWrite == s.doScenePrefab /\ CheckFilepath(disk1, sKey, s.fileOverwrite)
    IN  [st EXCEPT
            !.status  = "done",
            !.disk    = IF sWrite THEN WriteXmlFile(disk1, sKey, st.elems) ELSE disk1,
            !.written = IF sWrite
                        THEN Append(written1,
                                    [kind |-> "scene", key |-> sKey,
                                     name |-> s.blenderSceneName, doc |-> st.elems])
                        ELSE written1]

\* UrhoExportPrefabs(context, uScene, sOptions, fOptions, tOptions, currentPass):
\* the state the call ends in, with the models list uScene.SortModels left.
UrhoExportPrefabsOf(ml, fs, objs, s, dsk, currentPass) ==
    LET sorted == SortModelsOf(ml)
        st == ExportLoop(ExportStart(s, dsk), s, objs, fs, currentPass,
                         sorted.list, 1)
    IN  IF sorted.status # "done"
        THEN [modelsList |-> sorted.list,
              end |-> [ExportStart(s, dsk) EXCEPT !.status = sorted.status]]
        ELSE [modelsList |-> sorted.list,
              end |-> IF st.status = "running" THEN ExportWrite(st, s) ELSE st]

-----------------------------------------------------------------------------
(* urho_scene_prefab.py: UrhoGatherInstances and ExportScenePrefabButton.execute *)

\* The properties of the Blender scene the panel edits, the scene's name, the
\* fileOverwrite of its export settings and the groups of the Blender file:
\* each group is the list of its member objects.
DefaultScn ==
    [name             |-> "Scene",
     urho_orientation |-> "X_PLUS",
     urho_scale       |-> 100,
     urho_physics     |-> FALSE,
     urho_navigation  |-> FALSE,
     urho_navigable   |-> FALSE,
     urho_skyboxPath  |-> "Materials/Skybox.xml",
     fileOverwrite    |-> TRUE,
     groups           |-> <<>>]

\* A Blender object as the scene-prefab export reads it: parent is the name of
\* its parent or None, parent_type that object's type, data the name of its
\* mesh, dupli_group the name of the group it instances or None, children
\* whether objects are parented to it.
BlenderObject(name, parent, hide) ==
    [name |-> name, parent |-> parent, hide |-> hide,
     type |-> "MESH", parent_type |-> IF parent = None THEN "NONE" ELSE "MESH",
     data |-> name, dupli_group |-> None, children |-> FALSE]

\* obj.matrix_world and obj.matrix_local, kept as the object they belong to.
MatrixWorld(obj) == "world(" \o obj.name \o ")"
MatrixLocal(obj) == "local(" \o obj.name \o ")"

\* UrhoInstance
UrhoInstance(name, parentName, matrix, objectName) ==
    [name |-> name, parentName |-> parentName, matrix |-> matrix,
     objectName |-> objectName]

\* UrhoDupliTransforms(dupli, root, parent): the instance it appends; parent
\* is None or the group member that instances the group dupli belongs to.
UrhoDupliTransforms(obj, dupli, root, parent) ==
    LET matrix == IF parent = None THEN MatrixWorld(root)
                  ELSE MatrixWorld(root) \o "*" \o MatrixWorld(parent)
        keyed == dupli.parent # None /\ dupli.parent_type # "ARMATURE"
    IN  UrhoInstance(dupli.name,
                     IF keyed THEN obj.name \o dupli.parent ELSE None,
                     IF keyed THEN MatrixLocal(dupli) ELSE matrix,
                     IF dupli.children THEN obj.name \o dupli.name ELSE obj.name)

RECURSIVE SubDuplis(_, _, _, _, _)
\* "for subDupli in dupli.dupli_group.objects", from member i on.
SubDuplis(groups, obj, dupli, members, i) ==
    IF i > Len(members) THEN <<>>
    ELSE <<UrhoDupliTransforms(obj, members[i], obj, dupli)>>
             \o SubDuplis(groups, obj, dupli, members, i + 1)

RECURSIVE Duplis(_, _, _, _)
\* "for dupli in obj.dupli_group.objects", from member i on.
Duplis(groups, obj, members, i) ==
    IF i > Len(members) THEN <<>>
    ELSE LET dupli == members[i]
         IN  (IF dupli.hide \/ dupli.type = "ARMATURE" THEN <<>>
              ELSE IF dupli.type = "EMPTY" /\ dupli.dupli_group # None
              THEN SubDuplis(groups, obj, dupli, groups[dupli.dupli_group], 1)
              ELSE <<UrhoDupliTransforms(obj, dupli, obj, None)>>)
             \o Duplis(groups, obj, members, i + 1)

\* UrhoGatherInstances(obj): the instances it appends to the global list.
UrhoGatherInstances(groups, obj) ==
    IF obj.hide THEN <<>>
    ELSE IF obj.type = "EMPTY" /\ obj.dupli_group # None
    THEN Duplis(groups, obj, groups[obj.dupli_group], 1)
    ELSE IF obj.type = "MESH"
    THEN LET keyed == obj.parent # None /\ obj.parent_type = "MESH"
         IN  <<UrhoInstance(obj.data,
                            IF keyed THEN obj.parent ELSE None,
                            IF keyed THEN MatrixLocal(obj) ELSE MatrixWorld(obj),
                            obj.name)>>
    ELSE <<>>

RECURSIVE GatherAll(_, _, _)
\* "for obj in self.SortModels(context): UrhoGatherInstances(obj)"
GatherAll(groups, objs, i) ==
    IF i > Len(objs) THEN <<>>
    ELSE UrhoGatherInstances(groups, objs[i]) \o GatherAll(groups, objs, i + 1)

\* The <scene> element of execute and its components.
ButtonSceneElement(sc) ==
    Element("scene", 1, 0, <<>>,
        <<Component("Octree", 1, <<>>), Component("DebugRenderer", 2, <<>>)>>
        \o (IF sc.urho_skyboxPath # ""
            THEN <<Component("Skybox", 4,
                        <<Attr("Model", Lit("Model;Models/Box.mdl")),
                          Attr("Material", Lit("Material;" \o sc.urho_skyboxPath))>>)>>
            ELSE <<>>)
        \o (IF sc.urho_navigation THEN <<Component("NavigationMesh", 5, <<>>)>>
            ELSE <<>>)
        \o (IF sc.urho_physics THEN <<Component("PhysicsWorld", 6, <<>>)>> ELSE <<>>))

\* The DirectionalLight node of execute.
ButtonLightNode(nodeID) ==
    Element("node", nodeID, 1,
        <<Attr("Name", Lit("DirectionalLight")),
          Attr("Rotation", Lit("0.9 0.4 0.25 0"))>>,
        <<Component("Light", 7, <<Attr("Light Type", Lit("Directional"))>>)>>)

\* The root node of execute, Navigable without an id when the scene is both
\* urho_navigation and urho_navigable.
ButtonRootNode(sc, nodeID) ==
    Element("node", nodeID, 1,
        <<Attr("Name", Lit(sc.name))>>,
        IF sc.urho_navigation /\ sc.urho_navigable
        THEN <<Component("Navigable", NoId, <<>>)>> ELSE <<>>)

\* GetPrefabRoot(name, fOptions): the document read from the prefab file, None
\* when the file is missing or its root tag is not node.
GetPrefabRoot(dsk, name) ==
    IF (PathType_OBJECTS \o name) \notin DOMAIN dsk THEN None
    ELSE IF dsk[PathType_OBJECTS \o name][1].tag # "node" THEN None
    ELSE dsk[PathType_OBJECTS \o name]

\* "if not prefab_root": None, or an element without sub-elements.
NotPrefabRoot(doc) ==
    \/ doc = None
    \/ /\ Len(doc) = 1
       /\ doc[1].attrs = <<>>
       /\ doc[1].comps = <<>>

\* The front views whose branch assigns posMatrix and orientation: the branch
\* written for Y_PLUS tests front_view == None.
AssignedViews == {"X_PLUS", "X_MINUS", "Y_MINUS", "Z_PLUS", "Z_MINUS"}

FrontViews == AssignedViews \cup {"Y_PLUS"}

\* pos, rot and scale of an instance, each kept as what it is computed from.
InstanceTransform(sc, instance, what) ==
    Lit(what \o " of " \o instance.matrix \o " for " \o sc.urho_orientation
             \o (IF sc.urho_scale # 100 THEN " scaled" ELSE ""))

RECURSIVE SetTransforms(_, _, _, _, _)
\* "for attribute in prefab_root.findall('attribute')", from attribute i on:
\* pos, rot and scale are written to the attributes of their name and emptied
\* by the first of them.
SetTransforms(attrs, i, pos, rot, scale) ==
    IF i > Len(attrs) THEN [attrs |-> attrs, pos |-> pos, rot |-> rot, scale |-> scale]
    ELSE IF attrs[i].name = "Position"
    THEN SetTransforms([attrs EXCEPT ![i].value = pos], i + 1, Lit(""), rot, scale)
    ELSE IF attrs[i].name = "Rotation"
    THEN SetTransforms([attrs EXCEPT ![i].value = rot], i + 1, pos, Lit(""), scale)
    ELSE IF attrs[i].name = "Scale"
    THEN SetTransforms([attrs EXCEPT ![i].value = scale], i + 1, pos, rot, Lit(""))
    ELSE SetTransforms(attrs, i + 1, pos, rot, scale)

\* The attributes of the prefab root once the transforms are set: those not
\* found are appended.
PlacedAttrs(sc, instance, attrs) ==
    LET r == SetTransforms(attrs, 1, InstanceTransform(sc, instance, "Position"),
                           InstanceTransform(sc, instance, "Rotation"),
                           InstanceTransform(sc, instance, "Scale"))
    IN  r.attrs \o When(r.pos # Lit(""), "Position", r.pos)
                \o When(r.rot # Lit(""), "Rotation", r.rot)
                \o When(r.scale # Lit(""), "Scale", r.scale)

\* The prefab's elements appended to the scene's: the prefab root becomes a
\* child of element under, the others keep their place below it.
AppendPrefab(elems, doc, under) ==
    elems \o [i \in 1..Len(doc) |->
                [doc[i] EXCEPT !.parent = IF i = 1 THEN under ELSE @ + Len(elems)]]

\* One round of "for instance in instances".
PlaceInstance(st, sc, dsk, instance) ==
    LET prefab_root == GetPrefabRoot(dsk, instance.name)
        placed == [prefab_root EXCEPT
                      ![1].attrs = PlacedAttrs(sc, instance, prefab_root[1].attrs)]
        elements == (instance.objectName :> Len(st.elems) + 1)
                        @@ [k \in DOMAIN st.elements \ {instance.objectName} |->
                                st.elements[k]]
    IN  IF NotPrefabRoot(prefab_root) THEN st
        ELSE IF sc.urho_orientation \notin AssignedViews
        THEN [st EXCEPT !.status = "UnboundLocalError", !.elements = elements]
        ELSE IF Truthy(instance.parentName) /\ instance.objectName \in DOMAIN elements
        THEN IF instance.parentName \in DOMAIN elements
             THEN [st EXCEPT
                      !.elements = elements,
                      !.elems = AppendPrefab(@, placed, elements[instance.parentName])]
             ELSE [st EXCEPT !.status = "KeyError", !.elements = elements]
        ELSE [st EXCEPT !.elements = elements,
                        !.elems = AppendPrefab(@, placed, 1)]

RECURSIVE PlaceAll(_, _, _, _, _)
\* "for instance in instances", from instance i on.
PlaceAll(st, sc, dsk, insts, i) ==
    IF i > Len(insts) \/ st.status # "running" THEN st
    ELSE PlaceAll(PlaceInstance(st, sc, dsk, insts[i]), sc, dsk, insts, i + 1)

\* ExportScenePrefabButton.execute(context): the global instances list, the
\* disk and the status it ends with, and the scene document when written.
ExecuteOf(sc, objs, insts, dsk) ==
    LET sorted == ButtonSortModelsOf(objs)
        gathered == insts \o GatherAll(sc.groups, sorted.list, 1)
        start == [elems |-> <<ButtonSceneElement(sc), ButtonLightNode(BaseID),
                              ButtonRootNode(sc, BaseID + 1)>>,
                  elements |-> <<>>,
                  status |-> "running"]
        st == PlaceAll(start, sc, dsk, gathered, 1)
        key == PathType_SCENES \o sc.name
        write == st.status = "running" /\ CheckFilepath(dsk, key, sc.fileOverwrite)
    IN  IF sorted.status # "done"
        THEN [instances |-> insts, disk |-> dsk, status |-> sorted.status,
              sorted |-> <<>>, written |-> <<>>]
        ELSE [instances |-> gathered,
              disk      |-> IF write THEN WriteXmlFile(dsk, key, st.elems) ELSE dsk,
              status    |-> IF st.status = "running" THEN "done" ELSE st.status,
              sorted    |-> sorted.list,
              written   |-> IF write
                            THEN <<[kind |-> "scene", key |-> key,
                                    name |-> sc.name, doc |-> st.elems]>>
                            ELSE <<>>]

-----------------------------------------------------------------------------
(* What a sequence of (name, parent) items says *)

\* The names mentioned by the items: as a name or as a truthy parent.
Mentioned(items) ==
    {items[i][1] : i \in DOMAIN items}
        \cup {items[i][2] : i \in {j \in DOMAIN items : Truthy(items[j][2])}}

\* The parent links the items declare, as <<parent, child>>; an item whose
\* parent is its own name, None or '' declares none.
Links(items) ==
    {<<items[i][2], items[i][1]>> :
        i \in {j \in DOMAIN items : Truthy(items[j][2]) /\ items[j][2] # items[j][1]}}

RECURSIVE DescendantsIn(_, _, _)
\* The names reached from the set from by one to fuel links.
DescendantsIn(links, from, fuel) ==
    LET next == {l[2] : l \in {k \in links : k[1] \in from}}
    IN  IF fuel = 0 \/ next = {} THEN {}
        ELSE next \cup DescendantsIn(links, next, fuel - 1)

Descendants(items, n) == DescendantsIn(Links(items), {n}, Cardinality(Links(items)))

\* No name is its own descendant.
Acyclic(items) == \A n \in Mentioned(items) : n \notin Descendants(items, n)

\* Each name is declared (is the name of an item) at most once.
DeclaredOnce(items) ==
    \A i, j \in DOMAIN items : items[i][1] = items[j][1] => i = j

\* No name is given a parent (linked under one) by more than one item.
LinkedOnce(items) ==
    \A i, j \in DOMAIN items :
        (/\ items[i][1] = items[j][1]
         /\ Truthy(items[i][2]) /\ items[i][2] # items[i][1]
         /\ Truthy(items[j][2]) /\ items[j][2] # items[j][1]) => i = j

\* In the list s, x occurs, y occurs, and every x comes before every y.
AllBefore(s, x, y) ==
    /\ Positions(s, x) # {}
    /\ Positions(s, y) # {}
    /\ \A i \in Positions(s, x), j \in Positions(s, y) : i < j

-----------------------------------------------------------------------------
(* The state of each object before it is used *)

TreeIdle ==
    /\ tree = EmptyTree
    /\ pushed = <<>>
    /\ listed = NotListed

FilesIdle ==
    /\ files = <<>>
    /\ firstPath = <<>>
    /\ lastPath = <<>>
    /\ fileCall = NoFileCall

ModelsIdle ==
    /\ modelsList = <<>>
    /\ sortCall = NoSortCall
    /\ buttonSort = NoButtonSort

\* The value of exported while UrhoExportPrefabs has not been called.
NoExport == [currentPass |-> -1, status |-> "none", written |-> <<>>]

\* The value of sceneRun while execute has not been called.
NoRun == [status |-> "none", sorted |-> <<>>, written |-> <<>>]

\* The values of maskLayers, maskCall and materialsCall while neither GetBitMask
\* nor UrhoWriteMaterialsList has been called.
NoMaskCall == [op |-> "none", ret |-> 0]
NoMaterialsCall ==
    [name |-> None, status |-> "none", written |-> FALSE, content |-> <<>>]

PureIdle ==
    /\ maskLayers = <<>>
    /\ maskCall = NoMaskCall
    /\ materialsCall = NoMaterialsCall

ExportIdle ==
    /\ objects = <<>>
    /\ settings = DefaultSettings
    /\ disk = <<>>
    /\ exported = NoExport
    /\ scn = DefaultScn
    /\ instances = <<>>
    /\ sceneRun = NoRun

-----------------------------------------------------------------------------
(* The Tree object driven call by call *)

TreeInit == TreeIdle /\ FilesIdle /\ ModelsIdle /\ ExportIdle /\ PureIdle

\* names_tree.push((name, parent))
Push(name, parent) ==
    /\ Len(pushed) < MaxPush
    /\ tree' = TreePush(tree, name, parent)
    /\ pushed' = Append(pushed, <<name, parent>>)
    /\ listed' = NotListed
    /\ UNCHANGED <<fileVars, modelVars, exportVars, pureVars>>

\* names_tree.to_list()
ToList ==
    /\ listed = NotListed
    /\ listed' = TreeToList(tree)
    /\ UNCHANGED <<tree, pushed, fileVars, modelVars, exportVars, pureVars>>

TreeNext ==
    \/ \E name \in Names, parent \in Names \cup {None, EmptyStr} : Push(name, parent)
    \/ ToList

SpecTree == TreeInit /\ [][TreeNext]_vars

-----------------------------------------------------------------------------
(* UrhoScene.files driven call by call *)

\* UrhoScene.AddFile(pathType, name, fileUrhoPath)
AddFile(pathType, name, fileUrhoPath) ==
    LET ok == AddFileReturns(files, pathType, name)
        pair == <<pathType, name>>
    IN  /\ files' = AddFileDict(files, pathType, name, fileUrhoPath)
        /\ firstPath' = IF ok /\ pair \notin DOMAIN firstPath
                        THEN (pair :> fileUrhoPath) @@ firstPath
                        ELSE firstPath
        /\ lastPath' = IF ok
                       THEN (pair :> fileUrhoPath)
                                @@ [q \in DOMAIN lastPath \ {pair} |-> lastPath[q]]
                       ELSE lastPath
        /\ fileCall' = [op |-> "AddFile", pathType |-> pathType, name |-> name,
                        path |-> fileUrhoPath, ret |-> ok,
                        wasRegistered |-> pair \in DOMAIN firstPath]
        /\ UNCHANGED <<treeVars, modelVars, exportVars, pureVars>>

\* UrhoScene.FindFile(pathType, name)
FindFile(pathType, name) ==
    /\ fileCall' = [op |-> "FindFile", pathType |-> pathType, name |-> name,
                    path |-> None, ret |-> FindFileIn(files, pathType, name),
                    wasRegistered |-> <<pathType, name>> \in DOMAIN firstPath]
    /\ UNCHANGED <<files, firstPath, lastPath, treeVars, modelVars, exportVars, pureVars>>

FilesInit == TreeIdle /\ FilesIdle /\ ModelsIdle /\ ExportIdle /\ PureIdle

FilesNext ==
    \/ \E pathType \in PathTypes, name \in FileNames, path \in FilePaths :
            AddFile(pathType, name, path)
    \/ \E pathType \in PathTypes, name \in FileNames : FindFile(pathType, name)

SpecFiles == FilesInit /\ [][FilesNext]_vars

-----------------------------------------------------------------------------
(* UrhoScene.modelsList and the Blender scene's objects driven call by call.
   A behaviour works on one of the two: the UrhoScene of the exporter, or the
   scene the scene-prefab button sorts. *)

ModelsInit == TreeIdle /\ FilesIdle /\ ModelsIdle /\ ExportIdle /\ PureIdle

\* The models of the Blender file that have bones or morphs.
AnimatedNames == {AllNames[2]}

\* UrhoScene.Load for an export of one model: a call with several models is
\* this step once per model, with the same parentObjectName.
Load(name, parentObjectName) ==
    /\ Len(modelsList) < MaxModels
    /\ buttonSort = NoButtonSort
    /\ modelsList' = Append(modelsList,
            UrhoSceneModel(name, parentObjectName, name \in AnimatedNames,
                           <<>>, CubeBox))
    /\ sortCall' = NoSortCall
    /\ UNCHANGED <<buttonSort, treeVars, fileVars, exportVars, pureVars>>

\* UrhoScene.SortModels()
SortModels ==
    /\ modelsList # <<>>
    /\ modelsList' = SortModelsOf(modelsList).list
    /\ sortCall' = [status |-> SortModelsOf(modelsList).status, before |-> modelsList]
    /\ UNCHANGED <<buttonSort, treeVars, fileVars, exportVars, pureVars>>

\* Blender adds an object to the scene: object names are unique, a parent is
\* another object of the file (in this scene or not) and parenting never loops.
NewObject(name, parent, hide) ==
    LET objs == Append(buttonSort.objects, BlenderObject(name, parent, hide))
    IN  /\ modelsList = <<>> /\ sortCall = NoSortCall
        /\ Len(buttonSort.objects) < MaxObjects
        /\ \A i \in DOMAIN buttonSort.objects : buttonSort.objects[i].name # name
        /\ parent # name
        /\ Acyclic(ObjectItems(objs))
        /\ buttonSort' = [objects |-> objs, status |-> "none", sorted |-> <<>>]
        /\ UNCHANGED <<modelsList, sortCall, treeVars, fileVars, exportVars, pureVars>>

\* ExportScenePrefabButton.SortModels(context)
ButtonSortModels ==
    /\ buttonSort.objects # <<>>
    /\ buttonSort.status = "none"
    /\ buttonSort' = [objects |-> buttonSort.objects,
                      status  |-> ButtonSortModelsOf(buttonSort.objects).status,
                      sorted  |-> ButtonSortModelsOf(buttonSort.objects).list]
    /\ UNCHANGED <<modelsList, sortCall, treeVars, fileVars, exportVars, pureVars>>

ModelsNext ==
    \/ \E name \in Names, parent \in Names \cup {None} : Load(name, parent)
    \/ SortModels
    \/ \E name \in Names, parent \in Names \cup {None}, hide \in BOOLEAN :
            NewObject(name, parent, hide)
    \/ ButtonSortModels

SpecModels == ModelsInit /\ [][ModelsNext]_vars

-----------------------------------------------------------------------------
(* The two exporters applied to a Blender file.
   A behaviour starts from a Blender file, an UrhoScene and the options of an
   export, drawn from the families below; each family varies one side of the
   input around the scene of two cubes, Cube.001 parented to Cube. *)

\* The models an export is given.
ExportNames == {AllNames[1], AllNames[2]}

\* How many models the UrhoScene of an export holds.
MaxExportModels == 2

\* How many instances the global list may hold when execute is called.
MaxInstances == 3

\* The path a model's file is registered with.
ModelPath(n) == "Models/" \o n \o ".mdl"

RECURSIVE AddModelFiles(_, _, _)
\* AddFile(PathType.MODELS, name, path) for the names of AllNames in R, from
\* name i on.
AddModelFiles(fs, R, i) ==
    IF i > Len(AllNames) THEN fs
    ELSE AddModelFiles(IF AllNames[i] \in R
                       THEN AddFileDict(fs, PathType_MODELS, AllNames[i],
                                        ModelPath(AllNames[i]))
                       ELSE fs,
                       R, i + 1)

\* The UrhoScene holds the models ml and the files of the models R.
SceneIs(ml, R) ==
    /\ modelsList = ml
    /\ sortCall = NoSortCall
    /\ buttonSort = NoButtonSort
    /\ files = AddModelFiles(<<>>, R, 1)
    /\ firstPath = [pair \in {<<PathType_MODELS, n>> : n \in R} |-> ModelPath(pair[2])]
    /\ lastPath = firstPath
    /\ fileCall = NoFileCall

\* Nothing was exported yet and the given prefab files are on disk.
NothingExported(dsk) ==
    /\ disk = dsk
    /\ exported = NoExport
    /\ instances = <<>>
    /\ sceneRun = NoRun

\* The scene of two cubes.
TwoCubes ==
    <<UrhoSceneModel(AllNames[1], None, FALSE, <<>>, CubeBox),
      UrhoSceneModel(AllNames[2], AllNames[1], FALSE, <<>>, CubeBox)>>

\* Every object of the file has the properties obj.
AllObjects(obj) == [n \in ExportNames |-> obj]

\* The models a list is made of: any name, any parent, either type.
ExportModels ==
    {UrhoSceneModel(n, parent, animated, <<>>, CubeBox) :
        n \in ExportNames, parent \in ExportNames \cup {None}, animated \in BOOLEAN}

\* Family: any list of models, exported to the collective and scene documents
\* or not.
InitHierarchy ==
    /\ \E n \in 0..MaxExportModels : \E ml \in [1..n -> ExportModels] :
            SceneIs(ml, ExportNames)
    /\ objects = AllObjects(DefaultObject)
    /\ \E sp \in BOOLEAN :
            settings = [DefaultSettings EXCEPT !.doCollectivePrefab = TRUE,
                                               !.doScenePrefab = sp]
    /\ scn = DefaultScn
    /\ NothingExported(<<>>)

\* Family: the options that choose the object read and the files replaced, on
\* two cubes of which the second has physics.
InitPolicy ==
    /\ SceneIs(TwoCubes, ExportNames)
    /\ objects = (AllNames[1] :> DefaultObject)
                    @@ (AllNames[2] :> [DefaultObject EXCEPT
                                           !.urho_activate_physics = TRUE])
    /\ \E bc, ow, c, sp \in BOOLEAN, active \in ExportNames :
            settings = [DefaultSettings EXCEPT !.batchComponents = bc,
                                               !.fileOverwrite = ow,
                                               !.doCollectivePrefab = c,
                                               !.doScenePrefab = sp,
                                               !.doPhysics = TRUE,
                                               !.active = active]
    /\ scn = DefaultScn
    /\ NothingExported(<<>>)

\* Family: every combination of the options that choose the elements written,
\* on two cubes with physics and Navigable components.
InitOptions ==
    /\ SceneIs(TwoCubes, ExportNames)
    /\ objects = AllObjects([DefaultObject EXCEPT !.urho_activate_physics = TRUE,
                                                  !.urho_create_navigable = TRUE])
    /\ \E sp, c, mo, nav, sky, ph, props, go \in BOOLEAN :
            settings = [DefaultSettings EXCEPT
                           !.doScenePrefab = sp,
                           !.doCollectivePrefab = c,
                           !.mergeObjects = mo,
                           !.navigation = nav,
                           !.createSkybox = sky,
                           !.skyboxPath = IF sky THEN "Materials/Skybox.xml" ELSE "",
                           !.doPhysics = ph,
                           !.exportMode = IF props THEN "Props" ELSE "Everything",
                           !.globalOrigin = go]
    /\ scn = DefaultScn
    /\ NothingExported(<<>>)

\* The properties that decide which elements an object gets.
Flagged(physics, subnode, navigable) ==
    [DefaultObject EXCEPT !.urho_activate_physics = physics,
                          !.urho_create_subnode = subnode,
                          !.urho_create_navigable = navigable]

\* Family: every choice of physics, sub-node and Navigable per object and of
\* the model files registered, on two cubes.
InitFlags ==
    /\ \E R \in SUBSET ExportNames : SceneIs(TwoCubes, R)
    /\ \E p1, s1, n1, p2, s2, n2 \in BOOLEAN :
            objects = (AllNames[1] :> Flagged(p1, s1, n1))
                          @@ (AllNames[2] :> Flagged(p2, s2, n2))
    /\ \E sp \in BOOLEAN :
            settings = [DefaultSettings EXCEPT !.doPhysics = TRUE,
                                               !.doCollectivePrefab = TRUE,
                                               !.doScenePrefab = sp]
    /\ scn = DefaultScn
    /\ NothingExported(<<>>)

\* The values the panel's properties are edited to: per property, values
\* other than its default.
Edits ==
    {<<"urho_is_occluder", TRUE>>, <<"urho_can_be_occluded", FALSE>>,
     <<"urho_cast_shadows", TRUE>>, <<"urho_draw_distance", 1000>>,
     <<"urho_shadow_distance", 500>>, <<"urho_lod_bias", 200>>,
     <<"urho_max_lights", 4>>, <<"urho_view_mask", FirstLayer>>,
     <<"urho_light_mask", FirstLayer>>, <<"urho_shadow_mask", FirstLayer>>,
     <<"urho_zone_mask", FirstLayer>>, <<"urho_occlusion_lod_level", 0>>,
     <<"urho_create_subnode", TRUE>>, <<"urho_subnode_rotation", <<0, 9000, 0>>>>,
     <<"urho_create_navigable", TRUE>>, <<"urho_activate_physics", FALSE>>,
     <<"urho_shape_type", "Box">>, <<"urho_size_factor", <<200, 100, 100>>>>,
     <<"urho_offset_rotation", <<0, 0, 4500>>>>, <<"urho_lod_level", 1>>,
     <<"urho_collision_margin", 10>>, <<"urho_customgeometry_nodeid", 5>>,
     <<"urho_overwrite_model", TRUE>>, <<"urho_model", "Models/Hull.mdl">>,
     <<"urho_overwrite_size", TRUE>>, <<"urho_size", <<100, 200, 100>>>>,
     <<"urho_overwrite_offset_position", TRUE>>,
     <<"urho_offset_position", <<0, 50, 0>>>>,
     <<"urho_mass", 250>>, <<"urho_friction", 25>>,
     <<"urho_anisotropic_friction", <<50, 100, 100>>>>,
     <<"urho_rolling_friction", 10>>, <<"urho_restitution", 30>>,
     <<"urho_linear_velocity", <<100, 0, 0>>>>,
     <<"urho_angular_velocity", <<0, 100, 0>>>>,
     <<"urho_linear_factor", <<100, 0, 100>>>>,
     <<"urho_angular_factor", <<0, 100, 0>>>>,
     <<"urho_linear_damping", 20>>, <<"urho_angular_damping", 10>>,
     <<"urho_linear_rest_threshold", 50>>, <<"urho_angular_rest_threshold", 50>>,
     <<"urho_collision_layer", AllLayers>>,
     <<"urho_collision_layer", [i \in 1..MAX_BITMASK_BITS |-> i = 2]>>,
     <<"urho_collision_mask", FirstLayer>>,
     <<"urho_collision_mask", [i \in 1..MAX_BITMASK_BITS |-> FALSE]>>,
     <<"urho_contact_threshold", 5>>, <<"urho_contact_threshold", 50>>,
     <<"urho_ccd_radius", 10>>, <<"urho_ccd_motion_threshold", 10>>,
     <<"urho_collision_event_mode", "NEVER">>,
     <<"urho_collision_event_mode", "ALWAYS">>,
     <<"urho_use_gravity", FALSE>>, <<"urho_is_kinematic", TRUE>>,
     <<"urho_is_trigger", TRUE>>, <<"urho_gravity_override", <<0, 0, 100>>>>}

\* The object after the panel has set one property.
Edit(obj, e) == [f \in DOMAIN obj |-> IF f = e[1] THEN e[2] ELSE obj[f]]

\* Family: one cube with physics, none, one or two of its properties edited.
InitProperties ==
    /\ SceneIs(<<TwoCubes[1]>>, ExportNames)
    /\ \E e1, e2 \in Edits \cup {<<"", 0>>} :
            objects = AllObjects(Edit(Edit(Flagged(TRUE, FALSE, FALSE), e1), e2))
    /\ settings = [DefaultSettings EXCEPT !.doPhysics = TRUE,
                                          !.doCollectivePrefab = TRUE]
    /\ scn = DefaultScn
    /\ NothingExported(<<>>)

\* The individual prefabs of the two cubes, as pass 0 writes them.
TwoCubesDisk ==
    UrhoExportPrefabsOf(TwoCubes, AddModelFiles(<<>>, ExportNames, 1),
                        AllObjects(DefaultObject), DefaultSettings, <<>>, 0).end.disk

\* A file under the prefabs' path whose root element is not a node.
NotAPrefab == <<Element("scene", 1, 0, <<>>, <<>>)>>

\* The Blender scene holds the objects objs; the UrhoScene is not used.
ButtonSceneIs(objs) ==
    /\ modelsList = <<>>
    /\ sortCall = NoSortCall
    /\ buttonSort = [objects |-> objs, status |-> "none", sorted |-> <<>>]
    /\ FilesIdle
    /\ objects = <<>>
    /\ settings = DefaultSettings

\* The two cubes as objects of the Blender scene.
TwoCubeObjects ==
    <<BlenderObject(AllNames[1], None, FALSE),
      BlenderObject(AllNames[2], AllNames[1], FALSE)>>

\* Family: every choice of the scene-prefab panel's properties, on two cubes
\* whose prefabs are on disk.
InitPanel ==
    /\ ButtonSceneIs(TwoCubeObjects)
    /\ \E view \in FrontViews, ph, nav, navigable, sky, big \in BOOLEAN :
            scn = [DefaultScn EXCEPT
                      !.urho_orientation = view,
                      !.urho_physics = ph,
                      !.urho_navigation = nav,
                      !.urho_navigable = navigable,
                      !.urho_skyboxPath = IF sky THEN @ ELSE "",
                      !.urho_scale = IF big THEN 200 ELSE 100]
    /\ NothingExported(TwoCubesDisk)

\* The bounding boxes of the models: a cube around the origin, a plane in
\* the corner of the origin and a box away from it.
FlatBox == [min |-> <<0, 0, 0>>, max |-> <<200, 0, 400>>]
OffBox == [min |-> <<0, 100, -200>>, max |-> <<400, 300, 0>>]
Boxes == {CubeBox, FlatBox, OffBox}

\* The shape types and size factors the objects are given.
Shapes == {"Box", "Sphere", "TriangleMesh"}
SizeFactors == {<<100, 100, 100>>, <<200, 100, 50>>}

\* An object with physics, its shape and the settings of its size and offset.
Shaped(shape, factor, overwriteSize, overwriteOffset) ==
    [DefaultObject EXCEPT !.urho_activate_physics = TRUE,
                          !.urho_shape_type = shape,
                          !.urho_size_factor = factor,
                          !.urho_overwrite_size = overwriteSize,
                          !.urho_size = <<100, 200, 100>>,
                          !.urho_overwrite_offset_position = overwriteOffset,
                          !.urho_offset_position = <<0, 50, 0>>]

\* Family: two models with physics, the first of any bounding box, shape and
\* size factor, each with its size and offset computed or overwritten.
InitGeometry ==
    /\ \E b \in Boxes :
          SceneIs(<<UrhoSceneModel(AllNames[1], None, FALSE, <<>>, b),
                    UrhoSceneModel(AllNames[2], None, FALSE, <<>>, FlatBox)>>,
                  ExportNames)
    /\ \E shape \in Shapes, factor \in SizeFactors, os1, oo1, os2, oo2 \in BOOLEAN :
          objects = (AllNames[1] :> Shaped(shape, factor, os1, oo1))
                        @@ (AllNames[2] :> Shaped("Box", <<100, 100, 100>>, os2, oo2))
    /\ settings = [DefaultSettings EXCEPT !.doPhysics = TRUE,
                                          !.doCollectivePrefab = TRUE]
    /\ scn = DefaultScn
    /\ NothingExported(<<>>)

\* The individual prefab of a cube with a rotated sub-node, as pass 0 writes it.
SubNodePrefab ==
    UrhoExportPrefabsOf(<<TwoCubes[1]>>, AddModelFiles(<<>>, ExportNames, 1),
                        AllObjects([DefaultObject EXCEPT
                                       !.urho_create_subnode = TRUE,
                                       !.urho_subnode_rotation = <<0, 9000, 0>>]),
                        DefaultSettings, <<>>, 0).end.disk[PathType_OBJECTS \o AllNames[1]]

\* The transform attributes a prefab file may hold on its root node.
PrefabTransforms ==
    {Attr("Position", Lit("1 2 3")), Attr("Rotation", Lit("0 90 0")),
     Attr("Scale", Lit("2 2 2"))}

\* How many transform attributes the root node of a prefab file on disk holds.
MaxPrefabTransforms == 2

\* Prefab files as found on disk after they were edited: the prefab of the
\* cube with transform attributes added to its root node.
EditedPrefabs ==
    {[SubNodePrefab EXCEPT ![1].attrs = @ \o extra] :
        extra \in UNION {[1..n -> PrefabTransforms] : n \in 0..MaxPrefabTransforms}}

\* Family: the two cubes, the first one's prefab file edited.
InitPrefabs ==
    /\ ButtonSceneIs(TwoCubeObjects)
    /\ scn = DefaultScn
    /\ \E doc \in EditedPrefabs :
            NothingExported(WriteXmlFile(TwoCubesDisk,
                                         PathType_OBJECTS \o AllNames[1], doc))

\* The group of the Blender file: a cube and a second cube parented to it.
CubeGroup ==
    <<[BlenderObject(AllNames[1], None, FALSE) EXCEPT !.children = TRUE],
      BlenderObject(AllNames[2], AllNames[1], FALSE)>>

\* The objects a Blender scene is made of: the two cubes parented either way
\* or not at all, hidden or not, and an empty that instances the group.
ButtonObjects ==
    {BlenderObject(n, parent, hide) :
        n \in ExportNames, parent \in ExportNames \cup {None}, hide \in BOOLEAN}
    \cup {[BlenderObject("Empty", None, FALSE) EXCEPT
              !.type = "EMPTY", !.data = None, !.dupli_group = "Group"]}

\* The prefab files found on disk: those of the two cubes, with the first
\* one's missing or not a prefab.
ButtonDisks ==
    {TwoCubesDisk,
     [k \in DOMAIN TwoCubesDisk \ {PathType_OBJECTS \o AllNames[1]} |-> TwoCubesDisk[k]],
     WriteXmlFile(TwoCubesDisk, PathType_OBJECTS \o AllNames[1], NotAPrefab)}

\* How many objects the Blender scene of the scene-prefab export holds.
MaxButtonObjects == 2

\* Family: any scene of objects with different names, any of the disks.
InitObjects ==
    /\ \E n \in 0..MaxButtonObjects : \E objs \in [1..n -> ButtonObjects] :
            /\ \A i, j \in 1..n : objs[i].name = objs[j].name => i = j
            /\ \A i \in 1..n : objs[i].parent # objs[i].name
            /\ ButtonSceneIs(objs)
    /\ scn = [DefaultScn EXCEPT !.groups = ("Group" :> CubeGroup)]
    /\ \E dsk \in ButtonDisks : NothingExported(dsk)

ExportInit ==
    /\ TreeIdle
    /\ PureIdle
    /\ \/ InitHierarchy
       \/ InitPolicy
       \/ InitOptions
       \/ InitFlags
       \/ InitProperties
       \/ InitGeometry
       \/ InitPanel
       \/ InitPrefabs
       \/ InitObjects

\* The passes the exporter calls UrhoExportPrefabs with.
Passes == {0, 1}

\* UrhoExportPrefabs(context, uScene, sOptions, fOptions, tOptions, currentPass)
UrhoExportPrefabs(currentPass) ==
    LET r == UrhoExportPrefabsOf(modelsList, files, objects, settings, disk,
                                 currentPass)
    IN  /\ modelsList' = r.modelsList
        /\ sortCall' = [status |-> SortModelsOf(modelsList).status,
                        before |-> modelsList]
        /\ disk' = r.end.disk
        /\ exported' = [currentPass |-> currentPass, status |-> r.end.status,
                        written |-> r.end.written]
        /\ UNCHANGED <<buttonSort, objects, settings, scn, instances, sceneRun, pureVars,
                       treeVars, fileVars>>

\* ExportScenePrefabButton.execute(context)
Execute ==
    LET r == ExecuteOf(scn, buttonSort.objects, instances, disk)
    IN  /\ Len(instances) <= MaxInstances
        /\ instances' = r.instances
        /\ disk' = r.disk
        /\ sceneRun' = [status |-> r.status, sorted |-> r.sorted,
                        written |-> r.written]
        /\ buttonSort' = [buttonSort EXCEPT !.status = r.status, !.sorted = r.sorted]
        /\ UNCHANGED <<modelsList, sortCall, objects, settings, exported, scn, pureVars,
                       treeVars, fileVars>>

ExportNext ==
    \/ \E currentPass \in Passes : UrhoExportPrefabs(currentPass)
    \/ Execute

SpecExport == ExportInit /\ [][ExportNext]_vars

-----------------------------------------------------------------------------
(* C1 *)

\* C1: when each name is declared by at most one pushed pair and the parent
\* links form no cycle (a pair whose parent is its own name is parentless),
\* Tree.to_list returns a list, and in it every name that has a parent comes
\* after that parent and before each of its descendants.
C1_ParentsBeforeDescendants ==
    (listed # NotListed /\ DeclaredOnce(pushed) /\ Acyclic(pushed)) =>
        /\ listed.kind = "list"
        /\ \A l \in Links(pushed) : AllBefore(listed.names, l[1], l[2])
        /\ \A n \in Mentioned(pushed) :
              \A d \in Descendants(pushed, n) : AllBefore(listed.names, n, d)

\* A three-level chain flattened, the grandchild declared first and the root
\* known only as a parent until the last push.
C1_Witness ==
    /\ listed # NotListed
    /\ DeclaredOnce(pushed) /\ Acyclic(pushed)
    /\ Len(pushed) = 3
    /\ pushed[1][2] = pushed[2][1]
    /\ pushed[2][2] = pushed[3][1]
    /\ pushed[1][1] \in Descendants(pushed, pushed[3][1])

-----------------------------------------------------------------------------
(* C2 *)

-----------------------------------------------------------------------------
(* C3 *)

\* The lists a and b hold the same records, each as often in a as in b.
IsPermutation(a, b) ==
    /\ Len(a) = Len(b)
    /\ \A r \in Range(a) \cup Range(b) :
          Cardinality(Positions(a, r)) = Cardinality(Positions(b, r))

DistinctNames(l) == \A i, j \in DOMAIN l : l[i].name = l[j].name => i = j

\* No record of the item list names itself as its parent.
NoSelfParent(items) == \A i \in DOMAIN items : items[i][1] # items[i][2]

\* In the item list every item whose parent is the name of an item of the list
\* comes after that item.
ParentsFirst(items) ==
    \A i, j \in DOMAIN items : items[j][1] = items[i][2] => j < i

\* C3: for a model list with pairwise distinct names and acyclic parent
\* references, SortModels returns normally and leaves modelsList a permutation
\* of the records it held before (none lost, none duplicated, no field
\* changed), each model after the model its parentObjectName names when that
\* model is in the list; the scene-prefab button's SortModels does the same
\* with the visible objects of the scene.
C3_SortModelsPermutes ==
    /\ (/\ sortCall.status # "none"
        /\ DistinctNames(sortCall.before)
        /\ Acyclic(ModelItems(sortCall.before))
        /\ NoSelfParent(ModelItems(sortCall.before))) =>
            /\ sortCall.status = "done"
            /\ IsPermutation(modelsList, sortCall.before)
            /\ ParentsFirst(ModelItems(modelsList))
    /\ buttonSort.status # "none" =>
            /\ buttonSort.status = "done"
            /\ IsPermutation(buttonSort.sorted, Visible(buttonSort.objects))
            /\ ParentsFirst(ObjectItems(buttonSort.sorted))

\* Three models with distinct names sorted into another order: a child and
\* its grandchild loaded before the parent.
C3_Witness ==
    /\ sortCall.status = "done"
    /\ Len(sortCall.before) = 3
    /\ DistinctNames(sortCall.before)
    /\ Acyclic(ModelItems(sortCall.before))
    /\ sortCall.before[1].parentObjectName = sortCall.before[2].name
    /\ sortCall.before[2].parentObjectName = sortCall.before[3].name
    /\ modelsList # sortCall.before

-----------------------------------------------------------------------------
(* C4 *)

\* A parent cycle through two or more names.
HasCycle(items) == ~Acyclic(items)

\* C4: when the pushed pairs hold a parent cycle through two or more names,
\* flattening the tree fails with a cycle error: it neither returns a list nor
\* recurses without bound.
C4_CycleDetected ==
    (listed # NotListed /\ HasCycle(pushed)) => listed.kind = "CycleError"

-----------------------------------------------------------------------------
(* What a written document says *)

\* The value of the element's first attribute called name, None without one.
AttrOf(e, name) ==
    IF \E k \in DOMAIN e.attrs : e.attrs[k].name = name
    THEN e.attrs[CHOOSE k \in DOMAIN e.attrs :
                    /\ e.attrs[k].name = name
                    /\ \A j \in 1..(k - 1) : e.attrs[j].name # name].value.s
    ELSE None

\* The documents of kind kind the last UrhoExportPrefabs call wrote.
Written(kind) ==
    {exported.written[k].doc : k \in {j \in DOMAIN exported.written :
                                         exported.written[j].kind = kind}}

\* The position of the root node in a document of the given kind.
RootAt(kind) == IF kind = "scene" THEN 3 ELSE 1

\* The last model before position i of the list that is called name, 0 when
\* there is none.
LastBefore(ml, i, name) ==
    IF \E j \in 1..(i - 1) : ml[j].name = name
    THEN CHOOSE j \in 1..(i - 1) :
            ml[j].name = name /\ \A k \in (j + 1)..(i - 1) : ml[k].name # name
    ELSE 0

\* In every collective or scene document of a pass > 0, the node of each model
\* is under its parent's node when nests(ml, i) holds and under the root
\* node otherwise.
NestedWhen(nests(_, _)) ==
    exported.currentPass > 0 =>
        \A kind \in {"collective", "scene"} : \A doc \in Written(kind) :
            /\ Len(doc) = RootAt(kind) + Len(modelsList)
            /\ \A i \in DOMAIN modelsList :
                 /\ AttrOf(doc[RootAt(kind) + i], "Name") = modelsList[i].name
                 /\ doc[RootAt(kind) + i].parent
                      = IF nests(modelsList, i)
                        THEN RootAt(kind)
                               + LastBefore(modelsList, i, modelsList[i].parentObjectName)
                        ELSE RootAt(kind)

\* The parent name of model i names a StaticModel emitted before it.
ParentIsStatic(ml, i) ==
    /\ Truthy(ml[i].parentObjectName)
    /\ \E j \in 1..(i - 1) : /\ ml[j].name = ml[i].parentObjectName
                             /\ ml[j].type = "StaticModel"

\* Model i is a StaticModel and its parent name names a model emitted before it.
SelfIsStatic(ml, i) ==
    /\ ml[i].type = "StaticModel"
    /\ Truthy(ml[i].parentObjectName)
    /\ \E j \in 1..(i - 1) : ml[j].name = ml[i].parentObjectName

-----------------------------------------------------------------------------
(* C5 *)

\* C5, as stated: in a pass > 0 an object's node is created under its parent's
\* node exactly when its parent name names an already-emitted object of
\* StaticModel kind, and under the root node otherwise.
C5_Original == NestedWhen(ParentIsStatic)

\* C5: in a pass > 0 an object's node is created under its parent's node
\* exactly when the object itself is of StaticModel kind and its parent name
\* names an already-emitted object of either kind, and under the root node
\* otherwise; so Cube.001 (parent Cube) is a child of Cube's node when
\* Cube.001 is a StaticModel.
C5_NestedByOwnKind == NestedWhen(SelfIsStatic)

\* A collective document of a pass > 0 holds a StaticModel nested under an
\* AnimatedModel and an AnimatedModel with an emitted parent under the root.
C5_Witness ==
    /\ exported.currentPass > 0
    /\ \E doc \in Written("collective") :
         /\ Len(modelsList) = 2
         /\ modelsList[1].type = "AnimatedModel"
         /\ modelsList[2].type = "StaticModel"
         /\ modelsList[2].parentObjectName = modelsList[1].name
         /\ doc[3].parent = 2

-----------------------------------------------------------------------------
(* C6 *)

RECURSIVE ComponentIds(_, _)
\* The ids of the components of a document, in document order from element i.
ComponentIds(doc, i) ==
    IF i > Len(doc) THEN <<>>
    ELSE [k \in DOMAIN doc[i].comps |-> doc[i].comps[k].id] \o ComponentIds(doc, i + 1)

\* C6: in pass 0 every individual document has node id 0x1000000 and component
\* ids numbered consecutively from 0x1000000, whatever was processed before
\* and whatever the options.
C6_CountersRestart ==
    exported.currentPass = 0 =>
        \A doc \in Written("individual") :
            /\ doc[1].id = BaseID
            /\ \A k \in DOMAIN ComponentIds(doc, 1) :
                    ComponentIds(doc, 1)[k] = BaseID + k - 1

-----------------------------------------------------------------------------
(* C7 *)

\* The types and ids of the components of an element.
TypesAndIds(e) == [k \in DOMAIN e.comps |-> <<e.comps[k].type, e.comps[k].id>>]

\* The scene document doc has the fixed ids: its <scene> element holds Octree 1,
\* DebugRenderer 2, then Skybox 4, NavigationMesh 5 and PhysicsWorld 6 when
\* present; one node is called DirectionalLight, it has id 0x1000000 and the
\* Light component 7; the root node, called rootName, has id 0x1000001.
FixedIds(doc, skybox, navigation, physics, rootName) ==
    /\ doc[1].tag = "scene" /\ doc[1].id = 1
    /\ TypesAndIds(doc[1])
         = <<<<"Octree", 1>>, <<"DebugRenderer", 2>>>>
           \o (IF skybox THEN <<<<"Skybox", 4>>>> ELSE <<>>)
           \o (IF navigation THEN <<<<"NavigationMesh", 5>>>> ELSE <<>>)
           \o (IF physics THEN <<<<"PhysicsWorld", 6>>>> ELSE <<>>)
    /\ {i \in DOMAIN doc : AttrOf(doc[i], "Name") = "DirectionalLight"} = {2}
    /\ doc[2].tag = "node" /\ doc[2].parent = 1 /\ doc[2].id = BaseID
    /\ TypesAndIds(doc[2]) = <<<<"Light", 7>>>>
    /\ doc[3].tag = "node" /\ doc[3].parent = 1 /\ doc[3].id = BaseID + 1
    /\ AttrOf(doc[3], "Name") = rootName

\* C7: every scene document, of UrhoExportPrefabs and of the scene-from-prefabs
\* export, has Octree=1, DebugRenderer=2, Skybox=4, NavigationMesh=5 and
\* PhysicsWorld=6 each only if present, exactly one DirectionalLight node with
\* id 0x1000000 and Light component 7, and the root node with id 0x1000001.
C7_InfrastructureIds ==
    /\ \A doc \in Written("scene") :
          FixedIds(doc, settings.createSkybox, settings.navigation,
                   settings.doPhysics /\ settings.exportMode # "Props",
                   settings.blenderSceneName)
    /\ \A k \in DOMAIN sceneRun.written :
          FixedIds(sceneRun.written[k].doc, scn.urho_skyboxPath # "",
                   scn.urho_navigation, scn.urho_physics, scn.name)

\* UrhoExportPrefabs wrote a scene document with all three optional components
\* and execute wrote a scene document too.
C7_Witness ==
    /\ \E doc \in Written("scene") : Len(doc[1].comps) = 5 /\ Len(doc) > 3
    /\ sceneRun.written # <<>>

-----------------------------------------------------------------------------
(* C8 and C9 *)

\* The attributes written only when the property differs from its default:
\* the component they belong to, their name, the property they are written
\* from and how its value is written.
Suppressible ==
    {[type |-> "RigidBody", name |-> "Mass", prop |-> "urho_mass", fmt |-> "g"],
     [type |-> "RigidBody", name |-> "Friction", prop |-> "urho_friction", fmt |-> "g"],
     [type |-> "RigidBody", name |-> "Anisotropic Friction",
      prop |-> "urho_anisotropic_friction", fmt |-> "g g g"],
     [type |-> "RigidBody", name |-> "Rolling Friction",
      prop |-> "urho_rolling_friction", fmt |-> "g"],
     [type |-> "RigidBody", name |-> "Restitution", prop |-> "urho_restitution",
      fmt |-> "g"],
     [type |-> "RigidBody", name |-> "Linear Velocity",
      prop |-> "urho_linear_velocity", fmt |-> "g g g"],
     [type |-> "RigidBody", name |-> "Angular Velocity",
      prop |-> "urho_angular_velocity", fmt |-> "g g g"],
     [type |-> "RigidBody", name |-> "Linear Factor", prop |-> "urho_linear_factor",
      fmt |-> "g g g"],
     [type |-> "RigidBody", name |-> "Angular Factor",
      prop |-> "urho_angular_factor", fmt |-> "g g g"],
     [type |-> "RigidBody", name |-> "Linear Damping",
      prop |-> "urho_linear_damping", fmt |-> "g"],
     [type |-> "RigidBody", name |-> "Angular Damping",
      prop |-> "urho_angular_damping", fmt |-> "g"],
     [type |-> "RigidBody", name |-> "Linear Rest Threshold",
      prop |-> "urho_linear_rest_threshold", fmt |-> "g"],
     [type |-> "RigidBody", name |-> "Angular Rest Threshold",
      prop |-> "urho_angular_rest_threshold", fmt |-> "g"],
     [type |-> "RigidBody", name |-> "Collision Layer",
      prop |-> "urho_collision_layer", fmt |-> "mask"],
     [type |-> "RigidBody", name |-> "Collision Mask",
      prop |-> "urho_collision_mask", fmt |-> "mask"],
     [type |-> "RigidBody", name |-> "Contact Threshold",
      prop |-> "urho_contact_threshold", fmt |-> "g e+16"],
     [type |-> "RigidBody", name |-> "CCD Radius", prop |-> "urho_ccd_radius",
      fmt |-> "g"],
     [type |-> "RigidBody", name |-> "CCD Motion Threshold",
      prop |-> "urho_ccd_motion_threshold", fmt |-> "g"],
     [type |-> "RigidBody", name |-> "Collision Event Mode",
      prop |-> "urho_collision_event_mode", fmt |-> "s"],
     [type |-> "RigidBody", name |-> "Use Gravity", prop |-> "urho_use_gravity",
      fmt |-> "bool"],
     [type |-> "RigidBody", name |-> "Is Kinematic", prop |-> "urho_is_kinematic",
      fmt |-> "bool"],
     [type |-> "RigidBody", name |-> "Is Trigger", prop |-> "urho_is_trigger",
      fmt |-> "bool"],
     [type |-> "RigidBody", name |-> "Gravity Override",
      prop |-> "urho_gravity_override", fmt |-> "g g g"],
     [type |-> "CollisionShape", name |-> "Offset Rotation",
      prop |-> "urho_offset_rotation", fmt |-> "g g g"],
     [type |-> "CollisionShape", name |-> "LOD Level", prop |-> "urho_lod_level",
      fmt |-> "d"],
     [type |-> "CollisionShape", name |-> "Collision Margin",
      prop |-> "urho_collision_margin", fmt |-> "g"],
     [type |-> "CollisionShape", name |-> "CustomGeometry NodeID",
      prop |-> "urho_customgeometry_nodeid", fmt |-> "d"],
     [type |-> "Model", name |-> "Is Occluder", prop |-> "urho_is_occluder",
      fmt |-> "bool"],
     [type |-> "Model", name |-> "Can Be Occluded", prop |-> "urho_can_be_occluded",
      fmt |-> "bool"],
     [type |-> "Model", name |-> "Cast Shadows", prop |-> "urho_cast_shadows",
      fmt |-> "bool"],
     [type |-> "Model", name |-> "Draw Distance", prop |-> "urho_draw_distance",
      fmt |-> "g"],
     [type |-> "Model", name |-> "Shadow Distance", prop |-> "urho_shadow_distance",
      fmt |-> "g"],
     [type |-> "Model", name |-> "LOD Bias", prop |-> "urho_lod_bias", fmt |-> "g"],
     [type |-> "Model", name |-> "Max Lights", prop |-> "urho_max_lights",
      fmt |-> "d"],
     [type |-> "Model", name |-> "View Mask", prop |-> "urho_view_mask",
      fmt |-> "mask"],
     [type |-> "Model", name |-> "Light Mask", prop |-> "urho_light_mask",
      fmt |-> "mask"],
     [type |-> "Model", name |-> "Shadow Mask", prop |-> "urho_shadow_mask",
      fmt |-> "mask"],
     [type |-> "Model", name |-> "Zone Mask", prop |-> "urho_zone_mask",
      fmt |-> "mask"],
     [type |-> "Model", name |-> "Occlusion LOD Level",
      prop |-> "urho_occlusion_lod_level", fmt |-> "d"]}

\* The string a value is written as.
Formatted(fmt, v) ==
    CASE fmt = "g" -> FloatToString(v)
      [] fmt = "g e+16" -> FloatToStringE16(v)
      [] fmt = "g g g" -> Vector3ToString(v)
      [] fmt = "d" -> IntToString(v)
      [] fmt = "mask" -> IntToString(GetBitMask(v))
      [] fmt = "bool" -> Lit(IF v THEN "true" ELSE "false")
      [] fmt = "s" -> Lit(v)

\* The entry e is about components like c.
About(e, c) == IF e.type = "Model" THEN c.type \in ModelTypes ELSE c.type = e.type

\* The object whose properties the element i of a document was written from:
\* the active object when merging or batching, otherwise the object the node,
\* or the node holding the SubNode, is named after.
ObjectOf(doc, i) ==
    IF settings.mergeObjects \/ settings.batchComponents THEN objects[settings.active]
    ELSE IF AttrOf(doc[i], "Name") = "SubNode"
    THEN objects[AttrOf(doc[doc[i].parent], "Name")]
    ELSE objects[AttrOf(doc[i], "Name")]

\* The components of the written documents that hold suppressible attributes,
\* each with the object it was written from.
ObjectComponents ==
    UNION {UNION {{<<exported.written[w].doc[i].comps[k],
                     ObjectOf(exported.written[w].doc, i)>> :
                        k \in {j \in DOMAIN exported.written[w].doc[i].comps :
                                  exported.written[w].doc[i].comps[j].type
                                      \in ModelTypes \cup {"RigidBody", "CollisionShape"}}} :
                    i \in DOMAIN exported.written[w].doc} :
            w \in DOMAIN exported.written}

\* C8: in every document UrhoExportPrefabs emits, a suppressible attribute of
\* a RigidBody, CollisionShape or StaticModel/AnimatedModel component whose
\* live value equals its default does not appear.
C8_DefaultsSuppressed ==
    \A co \in ObjectComponents : \A e \in Suppressible :
        (About(e, co[1]) /\ co[2][e.prop] = DefaultObject[e.prop])
            => \A k \in DOMAIN co[1].attrs : co[1].attrs[k].name # e.name

\* C9: for every suppressible attribute, a value different from the default
\* makes UrhoExportPrefabs emit an attribute of that attribute's own name
\* carrying exactly the changed value.
C9_ChangesEmitted ==
    \A co \in ObjectComponents : \A e \in Suppressible :
        (About(e, co[1]) /\ co[2][e.prop] # DefaultObject[e.prop])
            => \E k \in DOMAIN co[1].attrs :
                  /\ co[1].attrs[k].name = e.name
                  /\ co[1].attrs[k].value = Formatted(e.fmt, co[2][e.prop])

-----------------------------------------------------------------------------
(* C10 *)

\* C10: an AddFile call for a (category, name) pair that an earlier AddFile
\* registered is rejected (it returns False), and FindFile for that pair still
\* returns the path of the first registration.
C10_DuplicateRejected ==
    (fileCall.op = "AddFile" /\ fileCall.wasRegistered) =>
        /\ fileCall.ret = FALSE
        /\ FindFileIn(files, fileCall.pathType, fileCall.name)
              = firstPath[<<fileCall.pathType, fileCall.name>>]

-----------------------------------------------------------------------------
(* C11 *)

\* C11: FindFile(category, name) returns the path registered for that pair
\* when one was registered (the path of the latest accepted registration), and
\* returns None, leaving the registry as it was, when the name is None, empty
\* or not registered under that category; no call changes the registry.
C11_FindFileReturns ==
    [][fileCall'.op = "FindFile" =>
          LET pair == <<fileCall'.pathType, fileCall'.name>>
          IN  /\ files' = files
              /\ fileCall'.ret = IF pair \in DOMAIN lastPath THEN lastPath[pair]
                                 ELSE None
              /\ ~Truthy(fileCall'.name) => fileCall'.ret = None]_vars

\* FindFile was called for a pair registered twice and returned the path of
\* the second registration.
C11_Witness ==
    LET pair == <<fileCall.pathType, fileCall.name>>
    IN  /\ fileCall.op = "FindFile"
        /\ pair \in DOMAIN lastPath
        /\ fileCall.ret = lastPath[pair]
        /\ lastPath[pair] # firstPath[pair]

-----------------------------------------------------------------------------
(* C12 *)

\* The model's file is registered.
HasModelFile(m) == Truthy(FindFileIn(files, PathType_MODELS, m.name))

\* The names of the nodes written for models into a document whose root node
\* is element top.
NodeNames(doc, top) == {AttrOf(doc[i], "Name") : i \in (top + 1)..Len(doc)}

\* C12: when an object's model file is not registered, UrhoExportPrefabs skips
\* only that object: no document and no node is written for it, the other
\* objects of the list are still processed, and the requested collective and
\* scene documents are still written.
C12_MissingFileSkipsOnlyThatObject ==
    (exported.status \in {"done", "returned"} /\ settings.fileOverwrite) =>
        /\ exported.currentPass = 0 =>
              \A i \in DOMAIN modelsList :
                  HasModelFile(modelsList[i])
                      <=> \E k \in DOMAIN exported.written :
                              /\ exported.written[k].kind = "individual"
                              /\ exported.written[k].name = modelsList[i].name
        /\ (settings.doCollectivePrefab /\ ~settings.mergeObjects)
              => Written("collective") # {}
        /\ settings.doScenePrefab => Written("scene") # {}
        /\ exported.currentPass > 0 =>
              \A kind \in {"collective", "scene"} : \A doc \in Written(kind) :
                  NodeNames(doc, RootAt(kind))
                      = {modelsList[i].name :
                            i \in {j \in DOMAIN modelsList : HasModelFile(modelsList[j])}}


-----------------------------------------------------------------------------
(* C13 *)

\* The document holds one node per model of the list, in the list's order,
\* each a descendant of the document's first element, its only top element.
OneNodePerModel(doc, ml) ==
    /\ Len(doc) = 1 + Len(ml)
    /\ doc[1].tag = "node" /\ doc[1].parent = 0
    /\ \A i \in DOMAIN ml :
          /\ doc[1 + i].tag = "node"
          /\ AttrOf(doc[1 + i], "Name") = ml[i].name
          /\ doc[1 + i].parent \in 1..i

\* C13: every collective document UrhoExportPrefabs writes, in any pass, was
\* requested (doCollectivePrefab set, mergeObjects not set) and contains one
\* node for each model, all of them descendants of the single root node.
C13_CollectiveHoldsEveryModel ==
    \A doc \in Written("collective") :
        /\ settings.doCollectivePrefab /\ ~settings.mergeObjects
        /\ OneNodePerModel(doc, modelsList)


-----------------------------------------------------------------------------
(* C14 *)

\* The instances of the list whose prefab file gives a prefab root, in order.
PlacedOf(insts) ==
    SelectSeq(insts, LAMBDA x : ~NotPrefabRoot(GetPrefabRoot(disk, x.name)))

RECURSIVE RootPosition(_, _)
\* The position, in the scene document, of the prefab root of the placed
\* instance k: after the scene, light and root elements and the subtrees of
\* the instances placed before it.
RootPosition(placed, k) ==
    IF k = 1 THEN 4
    ELSE RootPosition(placed, k - 1) + Len(GetPrefabRoot(disk, placed[k - 1].name))

\* Where the claim puts the prefab root of the placed instance k: under the
\* prefab root of the latest instance placed before it under the object name
\* its parent name gives, under the scene element when there is none.
ParentPosition(placed, k) ==
    LET matches == {j \in 1..(k - 1) : placed[j].objectName = placed[k].parentName}
    IN  IF Truthy(placed[k].parentName) /\ matches # {}
        THEN RootPosition(placed, CHOOSE j \in matches : \A i \in matches : i <= j)
        ELSE 1

\* C14: in the scene-from-prefabs export each placed prefab subtree is appended
\* under the subtree of the already-placed instance its parent name matches,
\* and under the scene root when it has no parent name or no placed instance
\* matches; the export never fails because a parent is absent.
C14_AbsentParentGoesToRoot ==
    /\ sceneRun.status # "KeyError"
    /\ \A w \in DOMAIN sceneRun.written :
          LET doc == sceneRun.written[w].doc
              placed == PlacedOf(instances)
          IN  \A k \in DOMAIN placed :
                  /\ RootPosition(placed, k) \in DOMAIN doc
                  /\ doc[RootPosition(placed, k)].parent = ParentPosition(placed, k)


-----------------------------------------------------------------------------
(* C15 *)

\* The three transforms execute sets on a prefab root.
TransformNames == {"Position", "Rotation", "Scale"}

\* The names the attributes of a node carry.
AttrNames(e) == {e.attrs[i].name : i \in DOMAIN e.attrs}

\* The prefab read from disk is found at position at of the scene document
\* with the transforms of the instance set on its root: every attribute of a
\* transform's name holds the computed value, at its old place; a transform
\* without attribute got one appended; everything else is as in the file.
PlacedAs(doc, at, prefab, instance) ==
    LET old == prefab[1]
        new == doc[at]
        missing == TransformNames \ AttrNames(old)
    IN  /\ Len(new.attrs) = Len(old.attrs) + Cardinality(missing)
        /\ \A i \in DOMAIN old.attrs :
              /\ new.attrs[i].name = old.attrs[i].name
              /\ new.attrs[i].value
                   = IF old.attrs[i].name \in TransformNames
                     THEN InstanceTransform(scn, instance, old.attrs[i].name)
                     ELSE old.attrs[i].value
        /\ \A i \in (Len(old.attrs) + 1)..Len(new.attrs) :
              /\ new.attrs[i].name \in missing
              /\ new.attrs[i].value = InstanceTransform(scn, instance, new.attrs[i].name)
        /\ missing \subseteq AttrNames(new)
        /\ new.comps = old.comps
        /\ \A j \in 2..Len(prefab) :
              doc[at + j - 1] = [prefab[j] EXCEPT !.parent = @ + at - 1]

\* C15: when the scene-from-prefabs export places an instance, for each of
\* Position, Rotation and Scale the prefab root ends up holding the computed
\* value in every direct attribute of that name: an existing attribute is
\* overwritten in place, a new one is appended only when none existed, and
\* every other attribute, component and child node is left unchanged.
C15_TransformsSet ==
    \A w \in DOMAIN sceneRun.written :
        LET doc == sceneRun.written[w].doc
            placed == PlacedOf(instances)
        IN  \A k \in DOMAIN placed :
                PlacedAs(doc, RootPosition(placed, k),
                         GetPrefabRoot(disk, placed[k].name), placed[k])


-----------------------------------------------------------------------------
(* C16 *)

\* C16: each run of the scene-from-prefabs export places only the instances
\* gathered during that run, every visible object once, and a run that follows
\* a run on the unchanged scene and prefab files writes the same scene
\* document again.
C16_RunsAreIndependent ==
    [][(sceneRun'.status = "done" /\ <<instances, sceneRun>>' # <<instances, sceneRun>>) =>
          /\ instances' = GatherAll(scn.groups, sceneRun'.sorted, 1)
          /\ sceneRun.status = "done" => sceneRun'.written = sceneRun.written]_vars


-----------------------------------------------------------------------------
(* C17 *)

-----------------------------------------------------------------------------
(* GetBitMask applied to every vector of layers *)

\* The vectors a BoolVectorProperty of size 8 takes.
LayerVectors == [1..MAX_BITMASK_BITS -> BOOLEAN]

MaskInit ==
    /\ TreeIdle /\ FilesIdle /\ ModelsIdle /\ ExportIdle
    /\ maskLayers \in LayerVectors
    /\ maskCall = NoMaskCall
    /\ materialsCall = NoMaterialsCall

\* GetBitMask(layers) of prefabs.py
GetBitMaskCall ==
    /\ maskCall' = [op |-> "prefabs.GetBitMask", ret |-> GetBitMask(maskLayers)]
    /\ UNCHANGED <<maskLayers, materialsCall, treeVars, fileVars, modelVars, exportVars>>

\* GetBitMask(layers) of urho_scene_prefab.py
ButtonGetBitMaskCall ==
    /\ maskCall' = [op |-> "urho_scene_prefab.GetBitMask",
                    ret |-> ButtonGetBitMask(maskLayers)]
    /\ UNCHANGED <<maskLayers, materialsCall, treeVars, fileVars, modelVars, exportVars>>

MaskNext == GetBitMaskCall \/ ButtonGetBitMaskCall

SpecMask == MaskInit /\ [][MaskNext]_vars

-----------------------------------------------------------------------------
(* C18 *)

RECURSIVE SumOfBits(_, _)
\* The sum of 2^i over the (0-based) positions i >= k - 1 that are set.
SumOfBits(v, k) ==
    IF k > Len(v) THEN 0
    ELSE (IF v[k] THEN Pow2(k - 1) ELSE 0) + SumOfBits(v, k + 1)

\* What the claim gives for a vector: the sum of 2^i over its set positions,
\* -1 when all 8 are set.
MaskOf(v) == IF \A k \in DOMAIN v : v[k] THEN -1 ELSE SumOfBits(v, 1)

\* C18: for every vector of 8 layer booleans either copy of GetBitMask returns
\* the sum of 2^i over the set positions i, -1 instead of 255 when all 8 are
\* set; so none set gives 0, bit 0 alone gives 1, and a different vector has a
\* different result.
C18_BitMask ==
    maskCall.op # "none" =>
        /\ maskCall.ret = MaskOf(maskLayers)
        /\ (\A k \in DOMAIN maskLayers : ~maskLayers[k]) => maskCall.ret = 0
        /\ maskLayers = FirstLayer => maskCall.ret = 1
        /\ \A v \in LayerVectors : v # maskLayers => MaskOf(v) # maskCall.ret

\* The copy of urho_scene_prefab.py was called with all 8 layers set and
\* returned -1.
C18_Witness ==
    /\ maskCall.op = "urho_scene_prefab.GetBitMask"
    /\ maskLayers = AllLayers
    /\ maskCall.ret = -1


-----------------------------------------------------------------------------
(* C19 *)

\* The vector an attribute of the component holds, the given one when the
\* component has no attribute of that name.
VectorOr(c, name, default) ==
    IF \E k \in DOMAIN c.attrs : c.attrs[k].name = name
    THEN c.attrs[CHOOSE k \in DOMAIN c.attrs : c.attrs[k].name = name].value.n
    ELSE default

\* The size and offset the claim gives a shape on a bounding box: the extent
\* per axis times the size factor and the centre of the box, but height 1 and
\* -0.5 for a Box shape on a box without Y extent.
ClaimedSize(shape, factor, b) ==
    [k \in 1..3 |-> IF k = 2 /\ shape = "Box" /\ b.max[2] = b.min[2] THEN 100
                    ELSE ((b.max[k] - b.min[k]) * factor[k]) \div 100]

ClaimedOffset(shape, b) ==
    [k \in 1..3 |-> IF k = 2 /\ shape = "Box" /\ b.max[2] = b.min[2] THEN -50
                    ELSE (b.min[k] + b.max[k]) \div 2]

\* C19: when physics is exported for an object with neither size nor offset
\* overwritten, the collision shape's size is the bounding-box extent per axis
\* times the size factor and its offset the bounding-box centre, except that a
\* Box shape on a bounding box with zero Y extent gets Y size 1 and Y offset
\* -0.5 (an attribute left out stands for size 1 1 1, offset 0 0 0).
C19_ShapeFromBoundingBox ==
    \A w \in DOMAIN exported.written :
        LET doc == exported.written[w].doc
        IN  \A i \in DOMAIN doc : \A k \in DOMAIN doc[i].comps :
                LET c == doc[i].comps[k]
                    obj == ObjectOf(doc, i)
                    named == {j \in DOMAIN modelsList :
                                 modelsList[j].name = AttrOf(doc[i], "Name")}
                IN  (/\ c.type = "CollisionShape"
                     /\ obj.urho_shape_type \notin {"TriangleMesh", "ConvexHull"}
                     /\ ~obj.urho_overwrite_size
                     /\ ~obj.urho_overwrite_offset_position
                     /\ Cardinality(named) = 1) =>
                        \A j \in named :
                            /\ VectorOr(c, "Size", <<100, 100, 100>>)
                                 = ClaimedSize(obj.urho_shape_type, obj.urho_size_factor,
                                               modelsList[j].boundingBox)
                            /\ VectorOr(c, "Offset Position", <<0, 0, 0>>)
                                 = ClaimedOffset(obj.urho_shape_type,
                                                 modelsList[j].boundingBox)

\* A Box shape on the bounding box min = (0,0,0), max = (2,0,4) with size
\* factor (1,1,1) was written with size (2,1,4) and offset (1,-0.5,2).
C19_Witness ==
    \E w \in DOMAIN exported.written :
        LET doc == exported.written[w].doc
        IN  \E i \in DOMAIN doc : \E k \in DOMAIN doc[i].comps :
                /\ doc[i].comps[k].type = "CollisionShape"
                /\ ObjectOf(doc, i).urho_shape_type = "Box"
                /\ ObjectOf(doc, i).urho_size_factor = <<100, 100, 100>>
                /\ ~ObjectOf(doc, i).urho_overwrite_size
                /\ ~ObjectOf(doc, i).urho_overwrite_offset_position
                /\ \E j \in DOMAIN modelsList :
                      /\ modelsList[j].name = AttrOf(doc[i], "Name")
                      /\ modelsList[j].boundingBox = FlatBox
                /\ VectorOr(doc[i].comps[k], "Size", <<>>) = <<200, 100, 400>>
                /\ VectorOr(doc[i].comps[k], "Offset Position", <<>>) = <<100, -50, 200>>


-----------------------------------------------------------------------------
(* export_scene.py: UrhoWriteMaterialsList *)

RECURSIVE MaterialLinesSkipping(_, _, _)
\* The lines without a placeholder for a missing file.
MaterialLinesSkipping(fs, materialsList, i) ==
    IF i > Len(materialsList) THEN <<>>
    ELSE LET file == FindFileIn(fs, PathType_MATERIALS, materialsList[i])
         IN  (IF ~Truthy(file) THEN <<>> ELSE <<file>>)
                 \o MaterialLinesSkipping(fs, materialsList, i + 1)

RECURSIVE MaterialLines(_, _, _)
\* "for uSceneMaterial in uSceneModel.materialsList": content += file + "\n"
\* from material i on, with "null" for a file that is missing. The content is
\* kept as the list of its lines.
MaterialLines(fs, materialsList, i) ==
    IF i > Len(materialsList) THEN <<>>
    ELSE LET file == FindFileIn(fs, PathType_MATERIALS, materialsList[i])
         IN  <<IF ~Truthy(file) THEN "null" ELSE file>>
                 \o MaterialLines(fs, materialsList, i + 1)

\* UrhoWriteMaterialsList(uScene, uModel, filepath): whether the file was
\* written and with what content. Without a scene model of the name it
\* returns at once; when the file cannot be opened, formatting the exception
\* with '{:s}' for the log raises TypeError.
UrhoWriteMaterialsListOf(ml, fs, name, canOpen) ==
    LET k == FirstNamed(ml, name)
    IN  IF k = 0
        THEN [name |-> name, status |-> "returned", written |-> FALSE, content |-> <<>>]
        ELSE IF ~canOpen
        THEN [name |-> name, status |-> "TypeError", written |-> FALSE, content |-> <<>>]
        ELSE [name |-> name, status |-> "done", written |-> TRUE,
              content |-> MaterialLines(fs, ml[k].materialsList, 1)]

\* The names of the materials of the models; a geometry without material has
\* the name None.
MaterialNames == {"Glass", "Metal", None}

\* How many materials a model has.
MaxMaterials == 2

\* The path a material's file is registered with.
MaterialPath(n) == "Materials/" \o n \o ".xml"

\* The lists of materials a model may have.
MaterialLists == UNION {[1..n -> MaterialNames] : n \in 0..MaxMaterials}

\* Two models with any materials, any of the materials' files registered.
MaterialsInit ==
    /\ TreeIdle /\ ExportIdle /\ PureIdle
    /\ \E l1, l2 \in MaterialLists :
          modelsList = <<UrhoSceneModel(AllNames[1], None, FALSE, l1, CubeBox),
                         UrhoSceneModel(AllNames[2], AllNames[1], FALSE, l2, CubeBox)>>
    /\ sortCall = NoSortCall
    /\ buttonSort = NoButtonSort
    /\ \E R \in SUBSET (MaterialNames \ {None}) :
          /\ files = [key \in {PathType_MATERIALS \o n : n \in R} |->
                         "Materials/" \o SubSeq(key, Len(PathType_MATERIALS) + 1, Len(key))
                             \o ".xml"]
          /\ firstPath = [pair \in {<<PathType_MATERIALS, n>> : n \in R} |->
                             MaterialPath(pair[2])]
    /\ lastPath = firstPath
    /\ fileCall = NoFileCall

\* UrhoWriteMaterialsList(uScene, uModel, filepath) for the model called name.
UrhoWriteMaterialsList(name, canOpen) ==
    /\ materialsCall' = UrhoWriteMaterialsListOf(modelsList, files, name, canOpen)
    /\ UNCHANGED <<maskLayers, maskCall, treeVars, fileVars, modelVars, exportVars>>

MaterialsNext ==
    \E name \in Names, canOpen \in BOOLEAN : UrhoWriteMaterialsList(name, canOpen)

SpecMaterials == MaterialsInit /\ [][MaterialsNext]_vars

-----------------------------------------------------------------------------
(* C20 *)

\* C20: UrhoWriteMaterialsList writes exactly one line per material of the
\* model, in material-list order, each line holding the material's registered
\* path, or the literal null when no file is registered for that material.
C20_OneLinePerMaterial ==
    materialsCall.written =>
        \E k \in DOMAIN modelsList :
            /\ modelsList[k].name = materialsCall.name
            /\ Len(materialsCall.content) = Len(modelsList[k].materialsList)
            /\ \A i \in DOMAIN materialsCall.content :
                  LET pair == <<PathType_MATERIALS, modelsList[k].materialsList[i]>>
                  IN  materialsCall.content[i]
                        = IF pair \in DOMAIN lastPath THEN lastPath[pair] ELSE "null"

\* The list of a model whose first material has no file and whose second
\* has one was written with null in the first line.
C20_Witness ==
    /\ materialsCall.written
    /\ Len(materialsCall.content) = 2
    /\ materialsCall.content[1] = "null"
    /\ materialsCall.content[2] = MaterialPath("Metal")


-----------------------------------------------------------------------------
(* C21 *)

\* The instances of the list whose prefab file is missing or has a root tag
\* other than node.
SkippedOf(insts) == SelectSeq(insts, LAMBDA x : GetPrefabRoot(disk, x.name) = None)

RECURSIVE PlacedLength(_, _)
\* How many elements the prefabs of the first k placed instances hold.
PlacedLength(placed, k) ==
    IF k = 0 THEN 0
    ELSE PlacedLength(placed, k - 1) + Len(GetPrefabRoot(disk, placed[k].name))

\* C21: a run of the scene-from-prefabs export that meets an instance whose
\* prefab file is missing or whose root tag is not node still ends normally
\* and writes the scene document, and the document holds, after the scene,
\* light and root elements, the prefabs of the other instances and nothing
\* else.
C21_BadPrefabSkipped ==
    (/\ sceneRun.status \notin {"none", RecursionMark}
     /\ scn.fileOverwrite
     /\ SkippedOf(instances) # <<>>) =>
        /\ sceneRun.status = "done"
        /\ Len(sceneRun.written) = 1
        /\ LET doc == sceneRun.written[1].doc
               placed == PlacedOf(instances)
           IN  /\ Len(doc) = 3 + PlacedLength(placed, Len(placed))
               /\ \A k \in DOMAIN placed :
                     doc[RootPosition(placed, k)].comps
                        = GetPrefabRoot(disk, placed[k].name)[1].comps


-----------------------------------------------------------------------------
(* C22 *)

RECURSIVE FirstMentions(_, _, _)
\* The names in the order the pushes first mention them, from push i on: the
\* name of a pair counts before its parent.
FirstMentions(items, i, seen) ==
    IF i > Len(items) THEN seen
    ELSE LET withName == IF items[i][1] \in Range(seen) THEN seen
                         ELSE Append(seen, items[i][1])
             withBoth == IF Truthy(items[i][2]) /\ items[i][2] \notin Range(withName)
                         THEN Append(withName, items[i][2])
                         ELSE withName
         IN  FirstMentions(items, i + 1, withBoth)

\* The names the pushes link under n, in the order of the pushes.
LinkedUnder(items, n) ==
    LET links == SelectSeq(items, LAMBDA it : Truthy(it[2]) /\ it[2] = n /\ it[1] # n)
    IN  [i \in DOMAIN links |-> links[i][1]]

RECURSIVE PreOrder(_, _, _)
RECURSIVE PreOrderEach(_, _, _, _)
\* The pre-order traversal from n: n, then the traversal from each name
\* linked under it, in the order of the links.
PreOrder(items, n, fuel) ==
    IF fuel = 0 THEN <<RecursionMark>>
    ELSE <<n>> \o PreOrderEach(items, LinkedUnder(items, n), 1, fuel - 1)

PreOrderEach(items, names, i, fuel) ==
    IF i > Len(names) THEN <<>>
    ELSE PreOrder(items, names[i], fuel) \o PreOrderEach(items, names, i + 1, fuel)

\* The names no push links under a parent, in the order of their first
\* mention.
RootsInOrder(items) ==
    SelectSeq(FirstMentions(items, 1, <<>>),
              LAMBDA n : \A l \in Links(items) : l[2] # n)

-----------------------------------------------------------------------------
(* C23 *)

\* The names the pushes mention as a parent only, never as the name of a pair.
OnlyParents(items) == Mentioned(items) \ {items[i][1] : i \in DOMAIN items}

\* C23: a name that is only ever pushed as a parent has a node without parent
\* in the tree, and in the list Tree.to_list returns it occurs once, as a
\* root, with every name declared under it (directly or further down) after
\* it; when no name is linked twice those names occur nowhere before it.
C23_PlaceholderIsRoot ==
    \A n \in OnlyParents(pushed) :
        /\ HasNode(tree, n)
        /\ tree.parent[n] = None
        /\ (listed # NotListed /\ listed.kind = "list") =>
              /\ Cardinality(Positions(listed.names, n)) = 1
              /\ \A d \in Descendants(pushed, n) :
                    /\ \E i \in Positions(listed.names, n), j \in Positions(listed.names, d) :
                          i < j
                    /\ LinkedOnce(pushed) => AllBefore(listed.names, n, d)

\* Two names declared under a parent that has no pair of its own: the list
\* begins with that parent.
C23_Witness ==
    /\ pushed = <<<<AllNames[2], AllNames[1]>>, <<AllNames[3], AllNames[1]>>>>
    /\ listed.kind = "list"
    /\ listed.names = <<AllNames[1], AllNames[2], AllNames[3]>>


-----------------------------------------------------------------------------
(* C24 *)

\* The positions of the node elements of a document.
NodesOf(doc) == {i \in DOMAIN doc : doc[i].tag = "node"}

\* C24: in every document UrhoExportPrefabs writes, in either pass and under
\* every combination of options, no two node elements carry the same id, the
\* SubNode of an individual prefab and the node that contains it included.
C24_NodeIdsDistinct ==
    \A w \in DOMAIN exported.written :
        LET doc == exported.written[w].doc
        IN  \A i, j \in NodesOf(doc) : doc[i].id = doc[j].id => i = j


-----------------------------------------------------------------------------
(* C25 *)

\* C25: UrhoExportPrefabs never fails on a value that was not computed, and
\* for every object exported with physics, whatever its size-override and
\* offset-override flags, the offset of the collision shape it writes is the
\* object's explicit offset when the offset is overwritten and otherwise the
\* offset computed from the bounding box of that object's own model (an
\* attribute left out stands for offset 0 0 0).
C25_OffsetFromOwnBox ==
    /\ exported.status # "UnboundLocalError"
    /\ \A w \in DOMAIN exported.written :
          LET doc == exported.written[w].doc
          IN  \A i \in DOMAIN doc : \A k \in DOMAIN doc[i].comps :
                  LET c == doc[i].comps[k]
                      obj == ObjectOf(doc, i)
                      named == {j \in DOMAIN modelsList :
                                   modelsList[j].name = AttrOf(doc[i], "Name")}
                  IN  (/\ c.type = "CollisionShape"
                       /\ obj.urho_shape_type \notin {"TriangleMesh", "ConvexHull"}
                       /\ Cardinality(named) = 1) =>
                          \A j \in named :
                              VectorOr(c, "Offset Position", <<0, 0, 0>>)
                                 = IF obj.urho_overwrite_offset_position
                                   THEN obj.urho_offset_position
                                   ELSE ClaimedOffset(obj.urho_shape_type,
                                                      modelsList[j].boundingBox)


-----------------------------------------------------------------------------
(* C26 *)

\* C26: for each of the six front views the panel offers, the scene-from-
\* prefabs export has assigned the position matrix and the orientation when
\* it computes the position, rotation and scale of an instance: no run ends
\* on an unassigned local variable.
C26_ViewAssigned ==
    scn.urho_orientation \in FrontViews => sceneRun.status # "UnboundLocalError"


-----------------------------------------------------------------------------
(* C27 *)

\* C27: in every document UrhoExportPrefabs writes, no component holds two
\* attributes of the same name, whatever the values of the object's
\* properties.
C27_AttributeNamesDistinct ==
    \A w \in DOMAIN exported.written :
        LET doc == exported.written[w].doc
        IN  \A i \in DOMAIN doc : \A k \in DOMAIN doc[i].comps :
                LET attrs == doc[i].comps[k].attrs
                IN  \A a, b \in DOMAIN attrs : attrs[a].name = attrs[b].name => a = b


-----------------------------------------------------------------------------
(* C28 *)

\* C28: after any sequence of AddFile calls, an AddFile call with a non-empty
\* name whose (category, name) pair was not registered before returns True,
\* and FindFile for that pair then returns the given path, whatever other
\* entries the registry holds.
C28_NewPairAccepted ==
    (fileCall.op = "AddFile" /\ Truthy(fileCall.name) /\ ~fileCall.wasRegistered) =>
        /\ fileCall.ret = TRUE
        /\ FindFileIn(files, fileCall.pathType, fileCall.name) = fileCall.path


-----------------------------------------------------------------------------
(* C29 *)

\* C29: whenever each name is pushed as the name of at most one pair,
\* Tree.to_list ends and returns a list in which no name is repeated, also
\* when the parent references form a cycle.
C29_EndsWithoutRepeats ==
    (listed # NotListed /\ DeclaredOnce(pushed)) =>
        /\ listed.kind = "list"
        /\ \A i, j \in DOMAIN listed.names : listed.names[i] = listed.names[j] => i = j

\* Two names that are each other's parent and a third name under one of
\* them: the list is returned, and it is empty.
C29_Witness ==
    /\ listed.kind = "list"
    /\ DeclaredOnce(pushed)
    /\ Len(pushed) = 3
    /\ HasCycle(pushed)
    /\ Cardinality(Mentioned(pushed)) = 3
    /\ listed.names = <<>>


-----------------------------------------------------------------------------
(* C30 *)

\* Every component of the document carries an id.
ComponentsHaveIds(doc) ==
    \A i \in DOMAIN doc : \A k \in DOMAIN doc[i].comps : doc[i].comps[k].id # NoId

\* C30: every component of a document written by UrhoExportPrefabs or by the
\* scene-from-prefabs export carries an id attribute, the Navigable component
\* of the root node included.
C30_ComponentsHaveIds ==
    /\ \A w \in DOMAIN exported.written : ComponentsHaveIds(exported.written[w].doc)
    /\ \A w \in DOMAIN sceneRun.written : ComponentsHaveIds(sceneRun.written[w].doc)


====
